---------------------------- MODULE Spec2Model ----------------------------
(***************************************************************************)
(* A model of the maxminddb reader: the typed value decoder (decode.rs),   *)
(* the metadata parser (metadata.rs), the record decoders (reader.rs,      *)
(* models.rs) and the Reader with its search-tree walk (reader.rs).        *)
(*                                                                         *)
(* Conventions.  A buffer is a sequence of bytes (0..255); Rust's 0-based  *)
(* index i is At(buf, i).  A Result is a record: Ok(v, off) carries the    *)
(* value and the cursor after the call, Err(e, arg) the error variant and  *)
(* its payload.  A panic (index out of bounds, arithmetic overflow in a    *)
(* build with overflow checks, panic!()) is the outcome Panic: it is not   *)
(* an Error value.  A usize read from the file by bytes_to_usize is kept   *)
(* as a 64-bit word, 8 big-endian bytes, so that its full width is modelled*)
(* sizes, offsets and tree records are integers.                           *)
(***************************************************************************)
EXTENDS Integers, Sequences, FiniteSets, TLC

VARIABLES
    data,             \* the byte buffer handed to Reader::from_bytes
    overflow_checks,  \* the build: TRUE panics on arithmetic overflow, FALSE wraps
    open,             \* outcome of Reader::from_bytes: "none" before the call
    reader,           \* the Reader's fields once constructed
    th,               \* the lookups in flight, one record per thread
    md,               \* outcome of the last Reader::metadata call
    fm,               \* outcome of find_metadata_start on data (SpecFind)
    call              \* one call of a decoder or node read on data, and its outcome

vars == <<data, overflow_checks, open, reader, th, md, fm, call>>

---------------------------------------------------------------------------
(* Results *)

Ok(v, o) == [ok |-> TRUE, val |-> v, off |-> o, err |-> "", arg |-> <<>>]
Err(e, a) == [ok |-> FALSE, val |-> <<>>, off |-> 0, err |-> e, arg |-> a]
Panic == Err("panic", <<>>)

IsErrorValue(r) == ~r.ok /\ r.err /= "panic"

---------------------------------------------------------------------------
(* Bytes and 64-bit words *)

At(buf, i) == buf[i + 1]
Slice(buf, a, b) == SubSeq(buf, a + 1, b)
Zeros(n) == [i \in 1..n |-> 0]

WordFits(w) == w[1] = 0 /\ w[2] = 0 /\ w[3] = 0 /\ w[4] = 0 /\ w[5] < 128
WordToInt(w) == ((w[5] * 256 + w[6]) * 256 + w[7]) * 256 + w[8]
WordIs(w, n) == WordFits(w) /\ WordToInt(w) = n
WordGtInt(w, n) == ~WordFits(w) \/ WordToInt(w) > n
AsU16(w) == w[7] * 256 + w[8]
AsU32(w) == SubSeq(w, 5, 8)

RECURSIVE IntToBytes(_, _)
IntToBytes(n, k) == IF k = 0 THEN <<>> ELSE Append(IntToBytes(n \div 256, k - 1), n % 256)
IntToWord(n) == IntToBytes(n, 8)

\* w * k in 64 bits, k small: the wrapped product and whether it overflowed
RECURSIVE WordMulFrom(_, _, _, _)
WordMulFrom(w, k, i, c) ==
    IF i = 0 THEN [bytes |-> <<>>, carry |-> c]
    ELSE LET p == w[i] * k + c
             rest == WordMulFrom(w, k, i - 1, p \div 256)
         IN [bytes |-> Append(rest.bytes, p % 256), carry |-> rest.carry]
WordMul(w, k) == WordMulFrom(w, k, 8, 0)

\* w + n in 64 bits, n small
RECURSIVE WordAddFrom(_, _, _)
WordAddFrom(w, i, c) ==
    IF i = 0 THEN [bytes |-> <<>>, carry |-> c]
    ELSE LET p == w[i] + c
             rest == WordAddFrom(w, i - 1, p \div 256)
         IN [bytes |-> Append(rest.bytes, p % 256), carry |-> rest.carry]
WordAdd(w, n) == WordAddFrom(w, 8, n)

---------------------------------------------------------------------------
(* decode.rs: the typed value decoder *)

DATA_TYPE_EXTENDED == 0
DATA_TYPE_POINTER == 1
DATA_TYPE_STRING == 2
DATA_TYPE_FLOAT64 == 3
DATA_TYPE_UINT16 == 5
DATA_TYPE_UINT32 == 6
DATA_TYPE_MAP == 7
DATA_TYPE_INT32 == 8
DATA_TYPE_UINT64 == 9
DATA_TYPE_UINT128 == 10
DATA_TYPE_SLICE == 11
DATA_TYPE_BOOL == 14

read_bytes(buf, offset, size) ==
    LET new_offset == offset + size
    IN IF new_offset > Len(buf) THEN Err("InvalidOffset", <<>>)
       ELSE Ok(Slice(buf, offset, new_offset), new_offset)

bytes_to_usize(b) ==
    IF Len(b) \in 1..8 THEN Zeros(8 - Len(b)) \o b ELSE Zeros(8)

RECURSIVE be_fold(_, _)
be_fold(acc, b) == IF b = <<>> THEN acc ELSE be_fold(acc * 256 + Head(b), Tail(b))

bytes_to_usize_with_prefix(prefix, b) ==
    IF Len(b) <= 8 THEN be_fold(prefix, b) ELSE 0

\* read_control after the control byte and the extended-type byte
read_control_size(buf, offset, data_type, size) ==
    IF data_type = DATA_TYPE_EXTENDED \/ size < 29 THEN Ok(<<data_type, size>>, offset)
    ELSE LET bytes_to_read == size - 28
             r == read_bytes(buf, offset, bytes_to_read)
         IN IF ~r.ok THEN r
            ELSE Ok(<<data_type,
                      WordToInt(bytes_to_usize(r.val))
                        + (CASE bytes_to_read = 1 -> 29
                             [] bytes_to_read = 2 -> 285
                             [] OTHER -> 65821)>>,
                    r.off)

read_control(buf, offset) ==
    IF offset >= Len(buf) THEN Panic
    ELSE LET control_byte == At(buf, offset)
             size == control_byte % 32
         IN IF control_byte \div 32 = DATA_TYPE_EXTENDED
            THEN IF offset + 1 >= Len(buf) THEN Panic
                 ELSE LET ext == At(buf, offset + 1) + 7
                      IN IF ext > 255 /\ overflow_checks THEN Panic
                         ELSE read_control_size(buf, offset + 2, ext % 256, size)
            ELSE read_control_size(buf, offset + 1, control_byte \div 32, size)

\* a read that adds no constant to the value
read_pointer_plain(buf, offset, size) ==
    LET pointer_size == ((size \div 8) % 4) + 1
        prefix == IF pointer_size /= 4 THEN size % 8 ELSE 0
        r == read_bytes(buf, offset, pointer_size)
    IN IF ~r.ok THEN r
       ELSE Ok(bytes_to_usize_with_prefix(prefix, r.val), r.off)

read_pointer(buf, offset, size) ==
    LET pointer_size == ((size \div 8) % 4) + 1
        prefix == IF pointer_size /= 4 THEN size % 8 ELSE 0
        r == read_bytes(buf, offset, pointer_size)
        pointer_value_offset == CASE pointer_size = 2 -> 2048
                                  [] pointer_size = 3 -> 526336
                                  [] OTHER -> 0
    IN IF ~r.ok THEN r
       ELSE Ok(bytes_to_usize_with_prefix(prefix, r.val) + pointer_value_offset, r.off)

\* an Ok result with the caller's cursor in place of its own
WithOffset(r, offset) == IF r.ok THEN Ok(r.val, offset) ELSE r

RECURSIVE read_str_ctl(_, _, _)
RECURSIVE read_bool_ctl(_, _, _)
RECURSIVE read_f64_ctl(_, _, _)
RECURSIVE read_usize_ctl(_, _, _)
RECURSIVE read_str_array_ctl(_, _, _)
RECURSIVE read_map_ctl(_, _, _)
RECURSIVE read_str(_, _)

\* match data_type { DATA_TYPE_STRING => read_bytes, _ => InvalidDataType }
read_str_body(buf, offset, data_type, size) ==
    IF data_type = DATA_TYPE_STRING THEN read_bytes(buf, offset, size)
    ELSE Err("InvalidDataType", <<data_type>>)

\* the DATA_TYPE_POINTER arm, p the outcome of read_pointer: the value at the
\* pointer's target is read with the inner match, which has no pointer arm,
\* and the cursor stays after the pointer
read_str_ptr(buf, p) ==
    IF ~p.ok THEN p
    ELSE WithOffset(read_str_ctl(buf, read_control(buf, p.val), FALSE), p.off)

\* the match on the control header c; outer is TRUE for the outer match
read_str_ctl(buf, c, outer) ==
    IF ~c.ok THEN c
    ELSE IF outer /\ c.val[1] = DATA_TYPE_POINTER
    THEN read_str_ptr(buf, read_pointer(buf, c.off, c.val[2]))
    ELSE read_str_body(buf, c.off, c.val[1], c.val[2])

\* the value is the string's bytes
read_str(buf, offset) == read_str_ctl(buf, read_control(buf, offset), TRUE)

read_bool_body(offset, data_type, size) ==
    IF data_type = DATA_TYPE_BOOL THEN Ok(size /= 0, offset)
    ELSE Err("InvalidDataType", <<data_type>>)

read_bool_ptr(buf, p) ==
    IF ~p.ok THEN p
    ELSE WithOffset(read_bool_ctl(buf, read_control(buf, p.val), FALSE), p.off)

read_bool_ctl(buf, c, outer) ==
    IF ~c.ok THEN c
    ELSE IF outer /\ c.val[1] = DATA_TYPE_POINTER
    THEN read_bool_ptr(buf, read_pointer(buf, c.off, c.val[2]))
    ELSE read_bool_body(c.off, c.val[1], c.val[2])

read_bool(buf, offset) == read_bool_ctl(buf, read_control(buf, offset), TRUE)

\* Ok(bytes_to_usize(b)) of the bytes read
usize_of(b) == IF ~b.ok THEN b ELSE Ok(bytes_to_usize(b.val), b.off)

\* the value is the f64's bit pattern, a 64-bit word
read_f64_body(buf, offset, data_type, size) ==
    IF data_type = DATA_TYPE_FLOAT64 THEN usize_of(read_bytes(buf, offset, size))
    ELSE Err("InvalidDataType", <<data_type>>)

read_f64_ptr(buf, p) ==
    IF ~p.ok THEN p
    ELSE WithOffset(read_f64_ctl(buf, read_control(buf, p.val), FALSE), p.off)

read_f64_ctl(buf, c, outer) ==
    IF ~c.ok THEN c
    ELSE IF outer /\ c.val[1] = DATA_TYPE_POINTER
    THEN read_f64_ptr(buf, read_pointer(buf, c.off, c.val[2]))
    ELSE read_f64_body(buf, c.off, c.val[1], c.val[2])

read_f64(buf, offset) == read_f64_ctl(buf, read_control(buf, offset), TRUE)

read_usize_body(buf, offset, data_type, size) ==
    IF data_type \in {DATA_TYPE_UINT16, DATA_TYPE_UINT32, DATA_TYPE_INT32,
                      DATA_TYPE_UINT64, DATA_TYPE_UINT128}
    THEN usize_of(read_bytes(buf, offset, size))
    ELSE Err("InvalidDataType", <<data_type>>)

read_usize_ptr(buf, p) ==
    IF ~p.ok THEN p
    ELSE WithOffset(read_usize_ctl(buf, read_control(buf, p.val), FALSE), p.off)

read_usize_ctl(buf, c, outer) ==
    IF ~c.ok THEN c
    ELSE IF outer /\ c.val[1] = DATA_TYPE_POINTER
    THEN read_usize_ptr(buf, read_pointer(buf, c.off, c.val[2]))
    ELSE read_usize_body(buf, c.off, c.val[1], c.val[2])

\* the value is a 64-bit word
read_usize(buf, offset) == read_usize_ctl(buf, read_control(buf, offset), TRUE)

\* for _ in 0..size { array.push(read_str(buf, offset)?) }: s is the item read
RECURSIVE read_str_items(_, _, _, _)
read_str_item(buf, n, array, s) ==
    IF ~s.ok THEN s ELSE read_str_items(buf, s.off, n - 1, Append(array, s.val))

read_str_items(buf, offset, n, array) ==
    IF n = 0 THEN Ok(array, offset)
    ELSE read_str_item(buf, n, array, read_str(buf, offset))

read_str_array_body(buf, offset, data_type, size) ==
    IF data_type = DATA_TYPE_SLICE THEN read_str_items(buf, offset, size, <<>>)
    ELSE Err("InvalidDataType", <<data_type>>)

read_str_array_ptr(buf, p) ==
    IF ~p.ok THEN p
    ELSE WithOffset(read_str_array_ctl(buf, read_control(buf, p.val), FALSE), p.off)

read_str_array_ctl(buf, c, outer) ==
    IF ~c.ok THEN c
    ELSE IF outer /\ c.val[1] = DATA_TYPE_POINTER
    THEN read_str_array_ptr(buf, read_pointer(buf, c.off, c.val[2]))
    ELSE read_str_array_body(buf, c.off, c.val[1], c.val[2])

read_str_array(buf, offset) == read_str_array_ctl(buf, read_control(buf, offset), TRUE)

\* for _ in 0..size { map.push((read_str(buf, offset)?, read_str(buf, offset)?)) }:
\* k is the key read, v the value read after it
RECURSIVE read_map_pairs(_, _, _, _)

\* a loop that goes on from the end of the key, not of the value
read_map_value_overlap(buf, n, map, k, v) ==
    IF ~v.ok THEN v ELSE read_map_pairs(buf, k.off, n - 1, Append(map, <<k.val, v.val>>))

read_map_value(buf, n, map, k, v) ==
    IF ~v.ok THEN v ELSE read_map_pairs(buf, v.off, n - 1, Append(map, <<k.val, v.val>>))

read_map_key(buf, n, map, k) ==
    IF ~k.ok THEN k ELSE read_map_value(buf, n, map, k, read_str(buf, k.off))

read_map_pairs(buf, offset, n, map) ==
    IF n = 0 THEN Ok(map, offset)
    ELSE read_map_key(buf, n, map, read_str(buf, offset))

read_map_body(buf, offset, data_type, size) ==
    IF data_type = DATA_TYPE_MAP THEN read_map_pairs(buf, offset, size, <<>>)
    ELSE Err("InvalidDataType", <<data_type>>)

read_map_ptr(buf, p) ==
    IF ~p.ok THEN p
    ELSE WithOffset(read_map_ctl(buf, read_control(buf, p.val), FALSE), p.off)

read_map_ctl(buf, c, outer) ==
    IF ~c.ok THEN c
    ELSE IF outer /\ c.val[1] = DATA_TYPE_POINTER
    THEN read_map_ptr(buf, read_pointer(buf, c.off, c.val[2]))
    ELSE read_map_body(buf, c.off, c.val[1], c.val[2])

read_map(buf, offset) == read_map_ctl(buf, read_control(buf, offset), TRUE)

---------------------------------------------------------------------------
(* The key literals of the match arms, as the bytes read_str returns *)

K_is_anonymous ==
    <<105, 115, 95, 97, 110, 111, 110, 121, 109, 111, 117, 115>>
K_is_anonymous_vpn ==
    <<105, 115, 95, 97, 110, 111, 110, 121, 109, 111, 117, 115, 95, 118, 112, 110>>
K_is_hosting_provider ==
    <<105, 115, 95, 104, 111, 115, 116, 105, 110, 103, 95, 112, 114, 111, 118, 105, 100, 101, 114>>
K_is_public_proxy ==
    <<105, 115, 95, 112, 117, 98, 108, 105, 99, 95, 112, 114, 111, 120, 121>>
K_is_residential_proxy ==
    <<105, 115, 95, 114, 101, 115, 105, 100, 101, 110, 116, 105, 97, 108, 95, 112, 114, 111, 120, 121>>
K_is_tor_exit_node ==
    <<105, 115, 95, 116, 111, 114, 95, 101, 120, 105, 116, 95, 110, 111, 100, 101>>
K_continent ==
    <<99, 111, 110, 116, 105, 110, 101, 110, 116>>
K_country ==
    <<99, 111, 117, 110, 116, 114, 121>>
K_registered_country ==
    <<114, 101, 103, 105, 115, 116, 101, 114, 101, 100, 95, 99, 111, 117, 110, 116, 114, 121>>
K_represented_country ==
    <<114, 101, 112, 114, 101, 115, 101, 110, 116, 101, 100, 95, 99, 111, 117, 110, 116, 114, 121>>
K_traits ==
    <<116, 114, 97, 105, 116, 115>>
K_geoname_id ==
    <<103, 101, 111, 110, 97, 109, 101, 95, 105, 100>>
K_is_in_european_union ==
    <<105, 115, 95, 105, 110, 95, 101, 117, 114, 111, 112, 101, 97, 110, 95, 117, 110, 105, 111, 110>>
K_iso_code ==
    <<105, 115, 111, 95, 99, 111, 100, 101>>
K_names ==
    <<110, 97, 109, 101, 115>>
K_code ==
    <<99, 111, 100, 101>>
K_type ==
    <<116, 121, 112, 101>>
K_is_anonymous_proxy ==
    <<105, 115, 95, 97, 110, 111, 110, 121, 109, 111, 117, 115, 95, 112, 114, 111, 120, 121>>
K_is_anycast ==
    <<105, 115, 95, 97, 110, 121, 99, 97, 115, 116>>
K_is_satellite_provider ==
    <<105, 115, 95, 115, 97, 116, 101, 108, 108, 105, 116, 101, 95, 112, 114, 111, 118, 105, 100, 101, 114>>
K_binary_format_major_version ==
    <<98, 105, 110, 97, 114, 121, 95, 102, 111, 114, 109, 97, 116, 95, 109, 97, 106, 111, 114, 95, 118, 101, 114, 115, 105, 111, 110>>
K_binary_format_minor_version ==
    <<98, 105, 110, 97, 114, 121, 95, 102, 111, 114, 109, 97, 116, 95, 109, 105, 110, 111, 114, 95, 118, 101, 114, 115, 105, 111, 110>>
K_node_count ==
    <<110, 111, 100, 101, 95, 99, 111, 117, 110, 116>>
K_record_size ==
    <<114, 101, 99, 111, 114, 100, 95, 115, 105, 122, 101>>
K_ip_version ==
    <<105, 112, 95, 118, 101, 114, 115, 105, 111, 110>>
K_database_type ==
    <<100, 97, 116, 97, 98, 97, 115, 101, 95, 116, 121, 112, 101>>
K_languages ==
    <<108, 97, 110, 103, 117, 97, 103, 101, 115>>
K_build_epoch ==
    <<98, 117, 105, 108, 100, 95, 101, 112, 111, 99, 104>>
K_description ==
    <<100, 101, 115, 99, 114, 105, 112, 116, 105, 111, 110>>
K_accuracy_radius ==
    <<97, 99, 99, 117, 114, 97, 99, 121, 95, 114, 97, 100, 105, 117, 115>>
K_autonomous_system_number ==
    <<97, 117, 116, 111, 110, 111, 109, 111, 117, 115, 95, 115, 121, 115, 116, 101, 109, 95, 110, 117, 109, 98, 101, 114>>
K_autonomous_system_organization ==
    <<97, 117, 116, 111, 110, 111, 109, 111, 117, 115, 95, 115, 121, 115, 116, 101, 109, 95, 111, 114, 103, 97, 110, 105, 122, 97, 116, 105, 111, 110>>
K_city ==
    <<99, 105, 116, 121>>
K_confidence ==
    <<99, 111, 110, 102, 105, 100, 101, 110, 99, 101>>
K_connection_type ==
    <<99, 111, 110, 110, 101, 99, 116, 105, 111, 110, 95, 116, 121, 112, 101>>
K_domain ==
    <<100, 111, 109, 97, 105, 110>>
K_is_legitimate_proxy ==
    <<105, 115, 95, 108, 101, 103, 105, 116, 105, 109, 97, 116, 101, 95, 112, 114, 111, 120, 121>>
K_isp ==
    <<105, 115, 112>>
K_latitude ==
    <<108, 97, 116, 105, 116, 117, 100, 101>>
K_location ==
    <<108, 111, 99, 97, 116, 105, 111, 110>>
K_longitude ==
    <<108, 111, 110, 103, 105, 116, 117, 100, 101>>
K_metro_code ==
    <<109, 101, 116, 114, 111, 95, 99, 111, 100, 101>>
K_mobile_country_code ==
    <<109, 111, 98, 105, 108, 101, 95, 99, 111, 117, 110, 116, 114, 121, 95, 99, 111, 100, 101>>
K_mobile_network_code ==
    <<109, 111, 98, 105, 108, 101, 95, 110, 101, 116, 119, 111, 114, 107, 95, 99, 111, 100, 101>>
K_organization ==
    <<111, 114, 103, 97, 110, 105, 122, 97, 116, 105, 111, 110>>
K_postal ==
    <<112, 111, 115, 116, 97, 108>>
K_static_ip_score ==
    <<115, 116, 97, 116, 105, 99, 95, 105, 112, 95, 115, 99, 111, 114, 101>>
K_subdivisions ==
    <<115, 117, 98, 100, 105, 118, 105, 115, 105, 111, 110, 115>>
K_time_zone ==
    <<116, 105, 109, 101, 95, 122, 111, 110, 101>>
K_user_type ==
    <<117, 115, 101, 114, 95, 116, 121, 112, 101>>

---------------------------------------------------------------------------
(* reader.rs, models.rs: the record decoders.  Every decode_with_size is  *)
(* the same loop over its own match arms; Schema(T) lists the arms of T   *)
(* in source order: the key literal, the field it assigns, how the value  *)
(* is read, and for a sub-record the type whose decode is called.         *)

Arm(key, field, kind, sub) == [key |-> key, field |-> field, kind |-> kind, sub |-> sub]

AnonymousIpArms ==
    << Arm(K_is_anonymous, "is_anonymous", "bool", ""),
       Arm(K_is_anonymous_vpn, "is_anonymous_vpn", "bool", ""),
       Arm(K_is_hosting_provider, "is_hosting_provider", "bool", ""),
       Arm(K_is_public_proxy, "is_public_proxy", "bool", ""),
       Arm(K_is_residential_proxy, "is_residential_proxy", "bool", ""),
       Arm(K_is_tor_exit_node, "is_tor_exit_node", "bool", "") >>

CountryArms ==
    << Arm(K_continent, "continent", "record", "models::Continent"),
       Arm(K_country, "country", "record", "models::Country"),
       Arm(K_registered_country, "registered_country", "record", "models::Country"),
       Arm(K_represented_country, "represented_country", "record",
           "models::RepresentedCountry"),
       Arm(K_traits, "traits", "record", "models::Traits") >>

ModelsContinentArms ==
    << Arm(K_geoname_id, "geoname_id", "u32", ""),
       Arm(K_code, "code", "str", ""),
       Arm(K_names, "names", "map", "") >>

ModelsCountryArms ==
    << Arm(K_geoname_id, "geoname_id", "u32", ""),
       Arm(K_is_in_european_union, "is_in_european_union", "bool", ""),
       Arm(K_iso_code, "iso_code", "str", ""),
       Arm(K_names, "names", "map", "") >>

ModelsRepresentedCountryArms ==
    << Arm(K_geoname_id, "geoname_id", "u32", ""),
       Arm(K_is_in_european_union, "is_in_european_union", "bool", ""),
       Arm(K_iso_code, "iso_code", "str", ""),
       Arm(K_names, "names", "map", ""),
       Arm(K_type, "representation_type", "str", "") >>

ModelsTraitsArms ==
    << Arm(K_is_anonymous_proxy, "is_anonymous_proxy", "bool", ""),
       Arm(K_is_anycast, "is_anycast", "bool", ""),
       Arm(K_is_satellite_provider, "is_satellite_provider", "bool", "") >>

CityArms ==
    << Arm(K_city, "city", "record", "models::City"),
       Arm(K_continent, "continent", "record", "models::Continent"),
       Arm(K_country, "country", "record", "models::Country"),
       Arm(K_location, "location", "record", "models::Location"),
       Arm(K_postal, "postal", "record", "models::Postal"),
       Arm(K_registered_country, "registered_country", "record", "models::Country"),
       Arm(K_represented_country, "represented_country", "record", "models::RepresentedCountry"),
       Arm(K_subdivisions, "subdivisions", "array", "models::Subdivision"),
       Arm(K_traits, "traits", "record", "models::Traits") >>

EnterpriseArms ==
    << Arm(K_city, "city", "record", "models::EnterpriseCity"),
       Arm(K_continent, "continent", "record", "models::Continent"),
       Arm(K_country, "country", "record", "models::EnterpriseCountry"),
       Arm(K_location, "location", "record", "models::Location"),
       Arm(K_postal, "postal", "record", "models::EnterprisePostal"),
       Arm(K_registered_country, "registered_country", "record", "models::EnterpriseCountry"),
       Arm(K_represented_country, "represented_country", "record", "models::RepresentedCountry"),
       Arm(K_subdivisions, "subdivisions", "array", "models::EnterpriseSubdivision"),
       Arm(K_traits, "traits", "record", "models::EnterpriseTraits") >>

ModelsCityArms ==
    << Arm(K_geoname_id, "geoname_id", "u32", ""),
       Arm(K_names, "names", "map", "") >>

ModelsLocationArms ==
    << Arm(K_latitude, "latitude", "f64", ""),
       Arm(K_longitude, "longitude", "f64", ""),
       Arm(K_accuracy_radius, "accuracy_radius", "u16", ""),
       Arm(K_time_zone, "time_zone", "str", ""),
       Arm(K_metro_code, "metro_code", "u16", "") >>

ModelsPostalArms ==
    << Arm(K_code, "code", "str", "") >>

ModelsSubdivisionArms ==
    << Arm(K_geoname_id, "geoname_id", "u32", ""),
       Arm(K_iso_code, "iso_code", "str", ""),
       Arm(K_names, "names", "map", "") >>

ModelsEnterpriseCountryArms ==
    << Arm(K_confidence, "confidence", "u16", ""),
       Arm(K_geoname_id, "geoname_id", "u32", ""),
       Arm(K_iso_code, "iso_code", "str", ""),
       Arm(K_names, "names", "map", ""),
       Arm(K_is_in_european_union, "is_in_european_union", "bool", "") >>

ModelsEnterpriseCityArms ==
    << Arm(K_confidence, "confidence", "u16", ""),
       Arm(K_geoname_id, "geoname_id", "u32", ""),
       Arm(K_names, "names", "map", "") >>

ModelsEnterprisePostalArms ==
    << Arm(K_confidence, "confidence", "u16", ""),
       Arm(K_code, "code", "str", "") >>

ModelsEnterpriseSubdivisionArms ==
    << Arm(K_confidence, "confidence", "u16", ""),
       Arm(K_geoname_id, "geoname_id", "u32", ""),
       Arm(K_iso_code, "iso_code", "str", ""),
       Arm(K_names, "names", "map", "") >>

ModelsEnterpriseTraitsArms ==
    << Arm(K_autonomous_system_number, "autonomous_system_number", "u32", ""),
       Arm(K_autonomous_system_organization, "autonomous_system_organization", "str", ""),
       Arm(K_connection_type, "connection_type", "str", ""),
       Arm(K_domain, "domain", "str", ""),
       Arm(K_is_anonymous, "is_anonymous", "bool", ""),
       Arm(K_is_anonymous_proxy, "is_anonymous_proxy", "bool", ""),
       Arm(K_is_anonymous_vpn, "is_anonymous_vpn", "bool", ""),
       Arm(K_is_anycast, "is_anycast", "bool", ""),
       Arm(K_is_hosting_provider, "is_hosting_provider", "bool", ""),
       Arm(K_isp, "isp", "str", ""),
       Arm(K_is_public_proxy, "is_public_proxy", "bool", ""),
       Arm(K_is_residential_proxy, "is_residential_proxy", "bool", ""),
       Arm(K_is_satellite_provider, "is_satellite_provider", "bool", ""),
       Arm(K_is_legitimate_proxy, "is_legitimate_proxy", "bool", ""),
       Arm(K_static_ip_score, "static_ip_score", "f64", ""),
       Arm(K_is_tor_exit_node, "is_tor_exit_node", "bool", ""),
       Arm(K_mobile_country_code, "mobile_country_code", "str", ""),
       Arm(K_mobile_network_code, "mobile_network_code", "str", ""),
       Arm(K_organization, "organization", "str", ""),
       Arm(K_user_type, "user_type", "str", "") >>

Schema(T) ==
    CASE T = "AnonymousIp" -> AnonymousIpArms
      [] T = "Country" -> CountryArms
      [] T = "models::Continent" -> ModelsContinentArms
      [] T = "models::Country" -> ModelsCountryArms
      [] T = "models::RepresentedCountry" -> ModelsRepresentedCountryArms
      [] T = "models::Traits" -> ModelsTraitsArms
      [] T = "City" -> CityArms
      [] T = "Enterprise" -> EnterpriseArms
      [] T = "models::City" -> ModelsCityArms
      [] T = "models::Location" -> ModelsLocationArms
      [] T = "models::Postal" -> ModelsPostalArms
      [] T = "models::Subdivision" -> ModelsSubdivisionArms
      [] T = "models::EnterpriseCountry" -> ModelsEnterpriseCountryArms
      [] T = "models::EnterpriseCity" -> ModelsEnterpriseCityArms
      [] T = "models::EnterprisePostal" -> ModelsEnterprisePostalArms
      [] T = "models::EnterpriseSubdivision" -> ModelsEnterpriseSubdivisionArms
      [] T = "models::EnterpriseTraits" -> ModelsEnterpriseTraitsArms

\* the records lookup returns override Decoder::decode (reader.rs); the
\* sub-records of models.rs use the trait's default
TopLevel == {"AnonymousIp", "Country", "City", "Enterprise"}

Fields(T) == {Schema(T)[i].field : i \in DOMAIN Schema(T)}
Keys(T) == {Schema(T)[i].key : i \in DOMAIN Schema(T)}

\* Option: None is <<>>, Some(v) is <<v>>
None == <<>>
Some(v) == <<v>>

\* let mut field = None; ... for every field of T
Unset(T) == [f \in Fields(T) |-> None]

\* the first arm whose literal equals the key; 0 is the catch-all arm
MatchArm(T, key) ==
    IF key \in Keys(T)
    THEN CHOOSE i \in DOMAIN Schema(T) :
            /\ Schema(T)[i].key = key
            /\ \A j \in 1..(i - 1) : Schema(T)[j].key /= key
    ELSE 0

RECURSIVE decode(_, _, _)
RECURSIVE decode_with_size(_, _, _, _)
RECURSIVE decode_loop(_, _, _, _, _)

\* read_usize(buf, offset)? as u32
u32_of(r) == IF ~r.ok THEN r ELSE Ok(AsU32(r.val), r.off)

\* read_usize(buf, offset)? as u16
u16_of(r) == IF ~r.ok THEN r ELSE Ok(AsU16(r.val), r.off)

\* the "subdivisions" arm of City and Enterprise, sub the element type:
\* for _ in 0..size { let item = sub::decode(buf, offset)?; array.push(item) }
RECURSIVE subdivisions_items(_, _, _, _, _)
RECURSIVE subdivisions_ctl(_, _, _, _)

\* a loop that puts each item before the ones read so far
subdivisions_item_reversed(sub, buf, n, array, item) ==
    IF ~item.ok THEN item
    ELSE subdivisions_items(sub, buf, item.off, n - 1, <<item.val>> \o array)

subdivisions_item(sub, buf, n, array, item) ==
    IF ~item.ok THEN item
    ELSE subdivisions_items(sub, buf, item.off, n - 1, Append(array, item.val))

subdivisions_items(sub, buf, offset, n, array) ==
    IF n = 0 THEN Ok(array, offset)
    ELSE subdivisions_item(sub, buf, n, array, decode(sub, buf, offset))

subdivisions_body(sub, buf, offset, data_type, size) ==
    IF data_type = DATA_TYPE_SLICE THEN subdivisions_items(sub, buf, offset, size, <<>>)
    ELSE Err("InvalidDataType", <<data_type>>)

\* the DATA_TYPE_POINTER branch, p the outcome of read_pointer: the array
\* is read at the target and the cursor stays after the pointer
subdivisions_ptr(sub, buf, p) ==
    IF ~p.ok THEN p
    ELSE WithOffset(subdivisions_ctl(sub, buf, read_control(buf, p.val), FALSE), p.off)

\* the branches on the control header c; outer is TRUE for the outer ones
subdivisions_ctl(sub, buf, c, outer) ==
    IF ~c.ok THEN c
    ELSE IF outer /\ c.val[1] = DATA_TYPE_POINTER
    THEN subdivisions_ptr(sub, buf, read_pointer(buf, c.off, c.val[2]))
    ELSE subdivisions_body(sub, buf, c.off, c.val[1], c.val[2])

subdivisions(sub, buf, offset) == subdivisions_ctl(sub, buf, read_control(buf, offset), TRUE)

\* the right-hand side of one match arm
read_field(arm, buf, offset) ==
    CASE arm.kind = "bool" -> read_bool(buf, offset)
      [] arm.kind = "str" -> read_str(buf, offset)
      [] arm.kind = "map" -> read_map(buf, offset)
      [] arm.kind = "u32" -> u32_of(read_usize(buf, offset))
      [] arm.kind = "u16" -> u16_of(read_usize(buf, offset))
      [] arm.kind = "f64" -> read_f64(buf, offset)
      [] arm.kind = "array" -> subdivisions(arm.sub, buf, offset)
      [] arm.kind = "record" -> decode(arm.sub, buf, offset)

\* an arm that reads the value and assigns nothing
decode_value_dropped(T, buf, n, rec, field, v) ==
    IF ~v.ok THEN v ELSE decode_loop(T, buf, v.off, n - 1, rec)

\* field = Some(v?), and the next iteration
decode_value(T, buf, n, rec, field, v) ==
    IF ~v.ok THEN v
    ELSE decode_loop(T, buf, v.off, n - 1, [rec EXCEPT ![field] = Some(v.val)])

\* a catch-all arm that ignores the key and goes on with the next pair
decode_arm_lenient(T, buf, n, rec, k, i) ==
    IF i = 0 THEN decode_loop(T, buf, k.off, n - 1, rec)
    ELSE decode_value(T, buf, n, rec, Schema(T)[i].field,
                      read_field(Schema(T)[i], buf, k.off))

\* the match on the key k: arm i of T, 0 for the catch-all arm
decode_arm(T, buf, n, rec, k, i) ==
    IF i = 0 THEN Err("UnknownField", k.val)
    ELSE decode_value(T, buf, n, rec, Schema(T)[i].field,
                      read_field(Schema(T)[i], buf, k.off))

\* k is the outcome of read_str(buf, offset)?
decode_key(T, buf, n, rec, k) ==
    IF ~k.ok THEN k ELSE decode_arm(T, buf, n, rec, k, MatchArm(T, k.val))

\* for _ in 0..size { match read_str(buf, offset)? { ... } }
decode_loop(T, buf, offset, n, rec) ==
    IF n = 0 THEN Ok(rec, offset)
    ELSE decode_key(T, buf, n, rec, read_str(buf, offset))

decode_with_size(T, buf, offset, size) == decode_loop(T, buf, offset, size, Unset(T))

\* the inner match of the trait's pointer arm on the control header c
decode_target(T, buf, c) ==
    IF ~c.ok THEN c
    ELSE IF c.val[1] = DATA_TYPE_MAP THEN decode_with_size(T, buf, c.off, c.val[2])
    ELSE Err("InvalidDataType", <<c.val[1]>>)

\* the trait's pointer arm, p the outcome of read_pointer
decode_pointer(T, buf, p) ==
    IF ~p.ok THEN p
    ELSE WithOffset(decode_target(T, buf, read_control(buf, p.val)), p.off)

\* the match on the control header c: the override of the records lookup
\* returns (reader.rs) accepts a map only, the trait's default (decode.rs) a
\* map or a pointer to a map
decode_control(T, buf, c) ==
    IF ~c.ok THEN c
    ELSE IF c.val[1] = DATA_TYPE_MAP THEN decode_with_size(T, buf, c.off, c.val[2])
    ELSE IF T \notin TopLevel /\ c.val[1] = DATA_TYPE_POINTER
    THEN decode_pointer(T, buf, read_pointer(buf, c.off, c.val[2]))
    ELSE Err("InvalidDataType", <<c.val[1]>>)

\* Decoder::decode
decode(T, buf, offset) == decode_control(T, buf, read_control(buf, offset))

---------------------------------------------------------------------------
(* metadata.rs *)

METADATA_START_MARKER == <<171, 205, 239, 77, 97, 120, 77, 105, 110, 100, 46, 99, 111, 109>>

\* Metadata::default()
MetadataDefault ==
    [ binary_format_major_version |-> 0,
      binary_format_minor_version |-> 0,
      node_count |-> Zeros(8),
      record_size |-> Zeros(8),
      ip_version |-> 0,
      database_type |-> <<>>,
      languages |-> <<>>,
      build_epoch |-> Zeros(8),
      description |-> <<>> ]

\* metadata.field = v?, v the outcome of the arm's read; as_u16 for `as u16`
metadata_set(metadata, field, v, as_u16) ==
    IF ~v.ok THEN v
    ELSE Ok([metadata EXCEPT ![field] = IF as_u16 THEN AsU16(v.val) ELSE v.val], v.off)

\* one match arm of Metadata::from_bytes: the metadata after the assignment
metadata_field(metadata, key, buf, offset) ==
    CASE key = K_binary_format_major_version ->
            metadata_set(metadata, "binary_format_major_version",
                         read_usize(buf, offset), TRUE)
      [] key = K_binary_format_minor_version ->
            metadata_set(metadata, "binary_format_minor_version",
                         read_usize(buf, offset), TRUE)
      [] key = K_node_count ->
            metadata_set(metadata, "node_count", read_usize(buf, offset), FALSE)
      [] key = K_record_size ->
            metadata_set(metadata, "record_size", read_usize(buf, offset), FALSE)
      [] key = K_ip_version ->
            metadata_set(metadata, "ip_version", read_usize(buf, offset), TRUE)
      [] key = K_database_type ->
            metadata_set(metadata, "database_type", read_str(buf, offset), FALSE)
      [] key = K_languages ->
            metadata_set(metadata, "languages", read_str_array(buf, offset), FALSE)
      [] key = K_build_epoch ->
            metadata_set(metadata, "build_epoch", read_usize(buf, offset), FALSE)
      [] key = K_description ->
            metadata_set(metadata, "description", read_map(buf, offset), FALSE)
      [] OTHER -> Err("UnknownField", key)

RECURSIVE metadata_loop(_, _, _, _)

\* f is the outcome of the arm: the next iteration
metadata_next(buf, n, f) ==
    IF ~f.ok THEN f ELSE metadata_loop(buf, f.off, n - 1, f.val)

\* k is the outcome of read_str(buf, &mut offset)?
metadata_key(buf, n, metadata, k) ==
    IF ~k.ok THEN k ELSE metadata_next(buf, n, metadata_field(metadata, k.val, buf, k.off))

\* for _ in 0..size { match read_str(buf, &mut offset)? { ... } }
metadata_loop(buf, offset, n, metadata) ==
    IF n = 0 THEN Ok(metadata, offset)
    ELSE metadata_key(buf, n, metadata, read_str(buf, offset))

\* the loop of Metadata::from_bytes, c the control header read at offset 0
metadata_map(buf, c) ==
    IF ~c.ok THEN c ELSE metadata_loop(buf, c.off, c.val[2], MetadataDefault)

\* Metadata::from_bytes: the data type of the control header is not looked at
Metadata_from_bytes(buf) == metadata_map(buf, read_control(buf, 0))

RECURSIVE metadata_scan(_, _, _)

\* the first return among the positions of the upper half, else the lower half's
metadata_scan_lower(buf, lo, mid, upper) ==
    IF upper.ok THEN upper ELSE metadata_scan(buf, lo, mid)

\* while pos != 0 { pos -= 1; if MARKER == &buf[pos..pos + window] { return Ok(pos + window) } }
\* for the values lo <= pos < hi that the body sees, from hi - 1 down to lo: the
\* first return, or MetadataNotFound when the loop runs out.  The range is
\* halved, upper half first, which is the loop's order.
metadata_scan(buf, lo, hi) ==
    IF hi <= lo THEN Err("MetadataNotFound", <<>>)
    ELSE IF hi = lo + 1
    THEN IF Slice(buf, lo, lo + Len(METADATA_START_MARKER)) = METADATA_START_MARKER
         THEN Ok(lo + Len(METADATA_START_MARKER), 0)
         ELSE Err("MetadataNotFound", <<>>)
    ELSE metadata_scan_lower(buf, lo, (lo + hi) \div 2,
                             metadata_scan(buf, (lo + hi) \div 2, hi))

\* buf.len() - window underflows when buf.len() < 14.  With overflow checks the
\* subtraction panics; without them pos wraps to 2^64 - (14 - len), the loop is
\* entered and the slice &buf[pos..pos + window] panics (its bounds lie outside
\* the buffer, or start after they end once pos + window wraps).
find_metadata_start(buf) ==
    IF Len(buf) < Len(METADATA_START_MARKER) THEN Panic
    ELSE metadata_scan(buf, 0, Len(buf) - Len(METADATA_START_MARKER))

---------------------------------------------------------------------------
(* reader.rs: the Reader *)

DATA_SECTION_SEPARATOR_SIZE == 16

\* the Reader's fields other than data; node_count and search_tree_size are
\* 64-bit words
NoReader ==
    [ search_tree_size |-> Zeros(8), record_size |-> 0, node_count |-> Zeros(8),
      node_offset_multi |-> 0, ip_v4_start |-> 0, ip_v4_start_bit_depth |-> 0 ]

\* node < self.node_count, node an integer
NodeBelowCount(r, node) == WordGtInt(r.node_count, node)

\* a read of the 28-bit left record that takes the low nibble of byte 3
read_left_low_nibble(r, buf, nodes) ==
    CASE r.record_size = 28 ->
            IF nodes + 3 >= Len(buf) THEN Panic
            ELSE Ok((At(buf, nodes + 3) % 16) * 16777216
                      + At(buf, nodes) * 65536
                      + At(buf, nodes + 1) * 256
                      + At(buf, nodes + 2), 0)
      [] r.record_size = 24 ->
            IF nodes + 2 >= Len(buf) THEN Panic
            ELSE Ok(At(buf, nodes) * 65536
                      + At(buf, nodes + 1) * 256
                      + At(buf, nodes + 2), 0)
      [] r.record_size = 32 ->
            IF nodes + 3 >= Len(buf) THEN Panic
            ELSE Ok(At(buf, nodes) * 16777216
                      + At(buf, nodes + 1) * 65536
                      + At(buf, nodes + 2) * 256
                      + At(buf, nodes + 3), 0)
      [] OTHER -> Panic

read_left(r, buf, nodes) ==
    CASE r.record_size = 28 ->
            IF nodes + 3 >= Len(buf) THEN Panic
            ELSE Ok((At(buf, nodes + 3) \div 16) * 16777216
                      + At(buf, nodes) * 65536
                      + At(buf, nodes + 1) * 256
                      + At(buf, nodes + 2), 0)
      [] r.record_size = 24 ->
            IF nodes + 2 >= Len(buf) THEN Panic
            ELSE Ok(At(buf, nodes) * 65536
                      + At(buf, nodes + 1) * 256
                      + At(buf, nodes + 2), 0)
      [] r.record_size = 32 ->
            IF nodes + 3 >= Len(buf) THEN Panic
            ELSE Ok(At(buf, nodes) * 16777216
                      + At(buf, nodes + 1) * 65536
                      + At(buf, nodes + 2) * 256
                      + At(buf, nodes + 3), 0)
      [] OTHER -> Panic

read_right(r, buf, nodes) ==
    CASE r.record_size = 28 ->
            IF nodes + 6 >= Len(buf) THEN Panic
            ELSE Ok((At(buf, nodes + 3) % 16) * 16777216
                      + At(buf, nodes + 4) * 65536
                      + At(buf, nodes + 5) * 256
                      + At(buf, nodes + 6), 0)
      [] r.record_size = 24 ->
            IF nodes + 5 >= Len(buf) THEN Panic
            ELSE Ok(At(buf, nodes + 3) * 65536
                      + At(buf, nodes + 4) * 256
                      + At(buf, nodes + 5), 0)
      [] r.record_size = 32 ->
            IF nodes + 7 >= Len(buf) THEN Panic
            ELSE Ok(At(buf, nodes + 4) * 16777216
                      + At(buf, nodes + 5) * 65536
                      + At(buf, nodes + 6) * 256
                      + At(buf, nodes + 7), 0)
      [] OTHER -> Panic

\* one iteration of the loop: node = read_left(buf, node * node_offset_multi)
ip_v4_step(i, left) == IF ~left.ok THEN left ELSE Ok(<<left.val, i + 1>>, 0)

\* while i < 96 && node < node_count { i += 1; node = read_left(..) }
\* s is Ok(<<node, i>>) or a panic; the iterations lo <= i < hi applied to s.
\* Once node >= node_count the loop has ended and s stays as it is.  The
\* range is halved to keep the evaluation shallow.
RECURSIVE ip_v4_descent(_, _, _, _, _)
ip_v4_descent(r, buf, s, lo, hi) ==
    IF ~s.ok \/ hi <= lo THEN s
    ELSE IF ~NodeBelowCount(r, s.val[1]) THEN s
    ELSE IF hi = lo + 1
    THEN ip_v4_step(lo, read_left(r, buf, s.val[1] * r.node_offset_multi))
    ELSE ip_v4_descent(r, buf, ip_v4_descent(r, buf, s, lo, (lo + hi) \div 2),
                       (lo + hi) \div 2, hi)

\* a Reader that keeps the loop's counter as its start node
from_bytes_v4_start_depth(r, d) ==
    IF ~d.ok THEN d
    ELSE Ok([r EXCEPT !.ip_v4_start = d.val[2], !.ip_v4_start_bit_depth = d.val[2]], 0)

\* reader.ip_v4_start = node; reader.ip_v4_start_bit_depth = i; d is the
\* outcome of the loop
from_bytes_v4_start(r, d) ==
    IF ~d.ok THEN d
    ELSE Ok([r EXCEPT !.ip_v4_start = d.val[1], !.ip_v4_start_bit_depth = d.val[2]], 0)

\* a precomputation that stops after 32 steps
from_bytes_reader_short(buf, ip_version, r) ==
    IF ip_version /= 6 THEN Ok(r, 0)
    ELSE IF WordGtInt(r.search_tree_size, Len(buf)) THEN Panic
    ELSE from_bytes_v4_start(r,
            ip_v4_descent(r, Slice(buf, 0, WordToInt(r.search_tree_size)),
                          Ok(<<0, 0>>, 0), 0, 32))

\* if ip_version == 6 { ... }; Ok(reader).  The slice
\* &data[..search_tree_size] panics when search_tree_size > data.len().
from_bytes_reader(buf, ip_version, r) ==
    IF ip_version /= 6 THEN Ok(r, 0)
    ELSE IF WordGtInt(r.search_tree_size, Len(buf)) THEN Panic
    ELSE from_bytes_v4_start(r,
            ip_v4_descent(r, Slice(buf, 0, WordToInt(r.search_tree_size)),
                          Ok(<<0, 0>>, 0), 0, 96))

\* data_section_start = search_tree_size + 16 and the check against
\* metadata_start; sum is the 64-bit sum and its carry
from_bytes_section(buf, metadata_start, metadata, node_offset_multi, search_tree_size, sum) ==
    IF overflow_checks /\ sum.carry /= 0 THEN Panic
    ELSE IF WordGtInt(sum.bytes, metadata_start) THEN Err("InvalidSearchTreeSize", <<>>)
    ELSE from_bytes_reader(buf, metadata.ip_version,
            [ search_tree_size |-> search_tree_size,
              record_size |-> WordToInt(metadata.record_size),
              node_count |-> metadata.node_count,
              node_offset_multi |-> node_offset_multi,
              ip_v4_start |-> 0,
              ip_v4_start_bit_depth |-> 0 ])

\* search_tree_size = node_count * node_offset_multi; product is the 64-bit
\* product and its carry
from_bytes_tree(buf, metadata_start, metadata, node_offset_multi, product) ==
    IF overflow_checks /\ product.carry /= 0 THEN Panic
    ELSE from_bytes_section(buf, metadata_start, metadata, node_offset_multi,
                            product.bytes,
                            WordAdd(product.bytes, DATA_SECTION_SEPARATOR_SIZE))

\* the validation applied to the low byte of record_size
from_bytes_validate_low_byte(buf, metadata_start, metadata) ==
    IF metadata.record_size[8] \notin {24, 28, 32}
    THEN Err("InvalidRecordSize", metadata.record_size)
    ELSE from_bytes_tree(buf, metadata_start, metadata,
                         WordToInt(metadata.record_size) \div 4,
                         WordMul(metadata.node_count, WordToInt(metadata.record_size) \div 4))

\* the validation of record_size, and node_offset_multi = record_size / 4
from_bytes_validate(buf, metadata_start, metadata) ==
    IF ~(WordIs(metadata.record_size, 24) \/ WordIs(metadata.record_size, 28)
           \/ WordIs(metadata.record_size, 32))
    THEN Err("InvalidRecordSize", metadata.record_size)
    ELSE from_bytes_tree(buf, metadata_start, metadata,
                         WordToInt(metadata.record_size) \div 4,
                         WordMul(metadata.node_count, WordToInt(metadata.record_size) \div 4))

\* m is the outcome of Metadata::from_bytes(&buf[metadata_start..])?
from_bytes_metadata(buf, metadata_start, m) ==
    IF ~m.ok THEN m ELSE from_bytes_validate(buf, metadata_start, m.val)

\* ms is the outcome of find_metadata_start(buf)?
from_bytes_start(buf, ms) ==
    IF ~ms.ok THEN ms
    ELSE from_bytes_metadata(buf, ms.val, Metadata_from_bytes(Slice(buf, ms.val, Len(buf))))

\* Reader::from_bytes: Ok carries the Reader's fields
from_bytes(buf) == from_bytes_start(buf, find_metadata_start(buf))

\* offset is the outcome of find_metadata_start(buf)?
metadata_at(buf, offset) ==
    IF ~offset.ok THEN offset ELSE Metadata_from_bytes(Slice(buf, offset.val, Len(buf)))

\* Reader::metadata
metadata_call(buf) == metadata_at(buf, find_metadata_start(buf))

\* bit i of the address, most significant bit of octet 0 first
AddrBit(ip, i) == (ip[(i \div 8) + 1] \div (2 ^ (7 - (i % 8)))) % 2

\* an iteration that counts two reads
tree_step_twice(i, next) == IF ~next.ok THEN next ELSE Ok(<<next.val, i + 2>>, 0)

\* one iteration of the loop: node = read_left(..) or read_right(..)
tree_step(i, next) == IF ~next.ok THEN next ELSE Ok(<<next.val, i + 1>>, 0)

\* for i in 0..bit_count { if node >= node_count { break } ... }
\* s is Ok(<<node, bits consumed>>) or a panic; the iterations lo <= i < hi
\* applied to s.  After the break s stays as it is.  The range is halved to
\* keep the evaluation shallow.
RECURSIVE tree_walk(_, _, _, _, _, _)
tree_walk(r, buf, ip, s, lo, hi) ==
    IF ~s.ok \/ hi <= lo THEN s
    ELSE IF ~NodeBelowCount(r, s.val[1]) THEN s
    ELSE IF hi = lo + 1
    THEN tree_step(lo, IF AddrBit(ip, lo) = 0
                       THEN read_left(r, buf, s.val[1] * r.node_offset_multi)
                       ELSE read_right(r, buf, s.val[1] * r.node_offset_multi))
    ELSE tree_walk(r, buf, ip, tree_walk(r, buf, ip, s, lo, (lo + hi) \div 2),
                   (lo + hi) \div 2, hi)

\* every walk starting from the root
start_node_root(r, ip) == 0

\* the node the walk starts from
start_node(r, ip) == IF Len(ip) * 8 = 128 THEN 0 ELSE r.ip_v4_start

\* the match without its arms for node_count and InvalidNode
tree_result_any(r, node) == Ok(node, 0)

\* a match without the arm for node_count: the value is returned as it is
tree_result_no_sentinel(r, node) ==
    IF ~NodeBelowCount(r, node) THEN Ok(node, 0) ELSE Err("InvalidNode", <<>>)

\* the match on node_count that ends find_address_in_tree
tree_result(r, node) ==
    IF WordIs(r.node_count, node) THEN Ok(0, 0)
    ELSE IF ~NodeBelowCount(r, node) THEN Ok(node, 0)
    ELSE Err("InvalidNode", <<>>)

\* w is the outcome of the loop
tree_outcome(r, w) ==
    IF ~w.ok THEN [res |-> w, node |-> 0, bits |-> 0]
    ELSE [res |-> tree_result(r, w.val[1]), node |-> w.val[1], bits |-> w.val[2]]

\* find_address_in_tree: [res: the Result, node, bits: where the walk stopped].
\* The slice &data[..search_tree_size] panics when search_tree_size > data.len().
find_address_in_tree(r, buf, ip) ==
    IF WordGtInt(r.search_tree_size, Len(buf))
    THEN [res |-> Panic, node |-> 0, bits |-> 0]
    ELSE tree_outcome(r, tree_walk(r, Slice(buf, 0, WordToInt(r.search_tree_size)), ip,
                                   Ok(<<start_node(r, ip), 0>>, 0), 0, Len(ip) * 8))

\* the subtraction without the separator
data_offset_no_separator(r, pointer) == pointer - WordToInt(r.node_count)

\* pointer - node_count - 16 for pointer > node_count: below 16 the second
\* subtraction underflows; the wrapped value 2^64 - k is written -k
data_offset(r, pointer) == pointer - WordToInt(r.node_count) - DATA_SECTION_SEPARATOR_SIZE

\* T::decode(&data[search_tree_size + 16..], &mut offset); Ok carries the
\* record and the data-section offset it was decoded at
lookup_record(offset, rec) == IF ~rec.ok THEN rec ELSE Ok(rec.val, offset)

\* Reader::lookup from the subtraction on
lookup_offset(r, buf, T, offset) ==
    IF offset < 0 /\ overflow_checks THEN Panic
    ELSE IF offset < 0 \/ offset >= Len(buf) THEN Err("CorruptSearchTree", <<>>)
    ELSE lookup_record(offset,
            decode(T, Slice(buf, WordToInt(r.search_tree_size) + DATA_SECTION_SEPARATOR_SIZE,
                            Len(buf)),
                   offset))

\* Reader::lookup after find_address_in_tree returned tree (a Result)
lookup_decode(r, buf, T, tree) ==
    IF ~tree.ok THEN tree
    ELSE IF tree.val = 0 THEN Err("AddressNotFound", <<>>)
    ELSE lookup_offset(r, buf, T, data_offset(r, tree.val))

\* Reader::lookup
lookup(r, buf, T, ip) == lookup_decode(r, buf, T, find_address_in_tree(r, buf, ip).res)

---------------------------------------------------------------------------
(* Inputs: database files, built byte by byte in the MMDB layout (search   *)
(* tree, 16 zero bytes, data section, marker, metadata), and addresses.    *)

RECURSIVE ConcatRange(_, _, _)
ConcatRange(ss, lo, hi) ==
    IF hi < lo THEN <<>>
    ELSE IF hi = lo THEN ss[lo]
    ELSE ConcatRange(ss, lo, (lo + hi) \div 2) \o ConcatRange(ss, (lo + hi) \div 2 + 1, hi)
Concat(ss) == ConcatRange(ss, 1, Len(ss))

EncStr(b) == <<64 + Len(b)>> \o b
EncBool(v) == <<IF v THEN 1 ELSE 0, 7>>
EncMap(n) == <<224 + n>>
EncUint16(b) == <<160 + Len(b)>> \o b
EncUint32(b) == <<192 + Len(b)>> \o b
EncUint64(b) == <<Len(b), 2>> \o b
EncPointer(p) == <<32 + (p \div 256), p % 256>>

\* one node of the search tree
EncNode(rs, l, r) ==
    CASE rs = 24 -> IntToBytes(l, 3) \o IntToBytes(r, 3)
      [] rs = 28 -> IntToBytes(l % 16777216, 3)
                      \o <<(l \div 16777216) * 16 + (r \div 16777216)>>
                      \o IntToBytes(r % 16777216, 3)
      [] rs = 32 -> IntToBytes(l, 4) \o IntToBytes(r, 4)

EncTree(rs, nodes) ==
    Concat([i \in 1..Len(nodes) |-> EncNode(rs, nodes[i][1], nodes[i][2])])

\* the data section: records at the offsets Rec0, Rec1, Rec2, Rec3
Rec0Bytes ==
    EncMap(2) \o EncStr(K_is_anonymous) \o EncBool(TRUE)
              \o EncStr(K_is_public_proxy) \o EncBool(TRUE)
Rec1Bytes ==
    EncMap(1) \o EncStr(K_is_tor_exit_node) \o EncBool(FALSE)
Rec2Bytes ==
    EncMap(1) \o EncStr(K_country)
              \o EncMap(2) \o EncStr(K_iso_code) \o EncStr(<<85, 83>>)
                           \o EncStr(K_is_in_european_union) \o EncBool(FALSE)
Rec0 == Len(<<>>)
Rec1 == Rec0 + Len(Rec0Bytes)
Rec2 == Rec1 + Len(Rec1Bytes)
Rec3 == Rec2 + Len(Rec2Bytes)
\* a Country whose registered_country is a pointer to the country map of Rec2
Rec3Bytes ==
    EncMap(1) \o EncStr(K_registered_country)
              \o EncPointer(Rec2 + 1 + Len(EncStr(K_country)))
DataSection == Rec0Bytes \o Rec1Bytes \o Rec2Bytes \o Rec3Bytes
RecordOffsets == {Rec0, Rec1, Rec2, Rec3}

\* the metadata map
MetaEntry(key, value) == EncStr(key) \o value
MetaBytes(entries) == EncMap(Len(entries)) \o Concat(entries)
StdMeta(nc, rs, ipv) ==
    MetaBytes(<< MetaEntry(K_binary_format_major_version, EncUint16(<<2>>)),
                 MetaEntry(K_node_count, EncUint32(IntToBytes(nc, 2))),
                 MetaEntry(K_record_size, EncUint16(<<rs>>)),
                 MetaEntry(K_ip_version, EncUint16(<<ipv>>)),
                 MetaEntry(K_database_type, EncStr(<<84>>)) >>)

File(tree, section, meta) ==
    tree \o Zeros(DATA_SECTION_SEPARATOR_SIZE) \o section \o METADATA_START_MARKER \o meta

\* a record value pointing at data-section offset off
Ptr(nc, off) == nc + DATA_SECTION_SEPARATOR_SIZE + off

\* the number of bytes after the separator in a file with the data section
\* DataSection: the section, the marker and the metadata
TailLen == Len(DataSection) + Len(METADATA_START_MARKER) + Len(StdMeta(1, 24, 4))

\* small search trees, each a sequence of <<left, right>> records; the number
\* of nodes is node_count, a record equal to it means "no data"
SmallTrees ==
    { <<>>,
      << <<Ptr(1, Rec0), 1>> >>,
      << <<Ptr(1, Rec1), Ptr(1, Rec2)>> >>,
      << <<0, Ptr(1, Rec0)>> >>,
      << <<1, 0>> >>,
      << <<1 + 3, Ptr(1, Rec3)>> >>,
      << <<Ptr(1, Len(DataSection) + 5), Ptr(1, 60000)>> >>,
      << <<Ptr(1, TailLen), Ptr(1, TailLen + DATA_SECTION_SEPARATOR_SIZE + 5)>> >>,
      << <<1, Ptr(2, Rec0)>>, <<Ptr(2, Rec1), Ptr(2, Rec2)>> >>,
      << <<0, 1>>, <<Ptr(2, Rec1), Ptr(2, Rec2)>> >>,
      << <<1, 2>>, <<0, Ptr(2, Rec3)>> >> }

RecordSizes == {24, 28, 32}

SmallFiles ==
    { File(EncTree(rs, t), DataSection, StdMeta(Len(t), rs, ipv)) :
        t \in SmallTrees, rs \in RecordSizes, ipv \in {4, 6} }

\* an IPv6 tree of realistic depth: nodes 0..95 descend left along ::/96 to
\* the IPv4 subtree rooted at node 96 (nodes 96, 97).  With alias, the right
\* record of node 80 leads through nodes 98..112 (bits 81..95 all one) back to
\* node 96, so that ::ffff:0:0/96 is the same subtree; without, it is "no data".
ChainNodeCount(alias) == IF alias THEN 113 ELSE 98
ChainNode(alias, n) ==
    LET nc == ChainNodeCount(alias)
    IN CASE n = 80 -> <<81, IF alias THEN 98 ELSE nc>>
         [] n < 96 -> <<n + 1, nc>>
         [] n = 96 -> <<97, Ptr(nc, Rec0)>>
         [] n = 97 -> <<Ptr(nc, Rec1), Ptr(nc, Rec2)>>
         [] n = 112 -> <<nc, 96>>
         [] OTHER -> <<nc, n + 1>>
ChainTree(alias) == [i \in 1..ChainNodeCount(alias) |-> ChainNode(alias, i - 1)]

ChainFiles ==
    { File(EncTree(rs, ChainTree(alias)), DataSection,
           StdMeta(ChainNodeCount(alias), rs, 6)) :
        alias \in BOOLEAN, rs \in {24, 28} }

\* files whose metadata from_bytes must reject, or that lack the marker
OneNode == << <<Ptr(1, Rec1), Ptr(1, Rec2)>> >>
MetaWith(nodeCount, recordSize) ==
    MetaBytes(<< MetaEntry(K_node_count, nodeCount),
                 MetaEntry(K_ip_version, EncUint16(<<4>>)) >> \o recordSize)
OddMetas ==
    { MetaWith(EncUint32(<<1>>), <<>>),
      MetaWith(EncUint32(<<1>>), <<MetaEntry(K_record_size, EncUint16(<<>>))>>),
      MetaWith(EncUint32(<<1>>), <<MetaEntry(K_record_size, EncUint16(<<16>>))>>),
      MetaWith(EncUint32(<<1>>), <<MetaEntry(K_record_size, EncUint16(<<25>>))>>),
      MetaWith(EncUint32(<<1>>), <<MetaEntry(K_record_size, EncUint16(<<1, 24>>))>>),
      MetaWith(EncUint32(<<1>>),
               <<MetaEntry(K_record_size, EncUint64(<<0, 0, 0, 1, 0, 0, 0, 24>>))>>),
      MetaWith(EncUint32(<<1>>),
               <<MetaEntry(K_record_size, EncUint64(<<1, 0, 0, 0, 0, 0, 0, 0, 24>>))>>),
      MetaWith(EncUint32(<<3, 232>>), <<MetaEntry(K_record_size, EncUint16(<<24>>))>>),
      MetaWith(EncUint64(<<32, 0, 0, 0, 0, 0, 0, 0>>),
               <<MetaEntry(K_record_size, EncUint16(<<32>>))>>),
      MetaWith(EncUint64(<<32, 0, 0, 0, 0, 0, 0, 1>>),
               <<MetaEntry(K_record_size, EncUint16(<<32>>))>>),
      MetaWith(EncUint64(<<31, 255, 255, 255, 255, 255, 255, 255>>),
               <<MetaEntry(K_record_size, EncUint16(<<32>>))>>),
      MetaWith(EncUint32(<<1>>),
               <<MetaEntry(K_record_size, EncUint16(<<24>>)),
                 MetaEntry(K_code, EncUint16(<<1>>))>>) }

OddFiles ==
    { File(EncTree(24, OneNode), DataSection, m) : m \in OddMetas }
    \cup { File(EncTree(32, OneNode), <<>>, StdMeta(1, 32, 4)),
           EncTree(24, OneNode) \o Zeros(15) \o METADATA_START_MARKER \o StdMeta(1, 24, 4),
           EncTree(24, OneNode) \o Zeros(16) \o DataSection \o StdMeta(1, 24, 4),
           METADATA_START_MARKER,
           <<171, 205, 239>> }

Files == SmallFiles \cup ChainFiles \cup OddFiles

\* addresses: octet sequences of length 4 and 16
V4Addrs ==
    { <<0, 0, 0, 0>>, <<64, 0, 0, 0>>, <<128, 0, 0, 0>>, <<192, 0, 0, 1>>,
      <<1, 2, 3, 4>>, <<255, 255, 255, 255>> }
Mapped(prefix, a) == Zeros(10) \o prefix \o a
V6Addrs ==
    { Mapped(<<0, 0>>, a) : a \in V4Addrs }
    \cup { Mapped(<<255, 255>>, a) : a \in V4Addrs }
    \cup { a \o Zeros(12) : a \in V4Addrs }
Addrs == V4Addrs \cup V6Addrs

---------------------------------------------------------------------------
(* The state machine *)

NumThreads == 2
Threads == 1..NumThreads

NoResult == Err("none", <<>>)
NoTree == [res |-> NoResult, node |-> 0, bits |-> 0]
Idle == [pc |-> "idle", T |-> "", ip |-> <<>>, tree |-> NoTree, result |-> NoResult]
NoCall == [op |-> "", T |-> "", offset |-> 0, size |-> 0, result |-> NoResult]

InitWith(files) ==
    /\ data \in files
    /\ overflow_checks \in BOOLEAN
    /\ open = NoResult
    /\ reader = NoReader
    /\ th = [t \in Threads |-> Idle]
    /\ md = NoResult
    /\ fm = NoResult
    /\ call = NoCall

\* a lookup that leaves its start node, the root, in the Reader
after_call_start_kept(r) == [r EXCEPT !.ip_v4_start = 0, !.ip_v4_start_bit_depth = 0]

\* the Reader's fields after metadata, lookup or find_address_in_tree, which
\* take &self and assign to no field
after_call(r) == r

\* Reader::from_bytes(data)
Open ==
    /\ open = NoResult
    /\ open' = from_bytes(data)
    /\ reader' = IF open'.ok THEN open'.val ELSE NoReader
    /\ UNCHANGED <<data, overflow_checks, th, md, fm, call>>

\* a thread calls reader.lookup::<T>(ip) and runs find_address_in_tree
LookupWalk(t, T, ip) ==
    /\ open.ok
    /\ th[t].pc = "idle"
    /\ th' = [th EXCEPT ![t] = [pc |-> "walked", T |-> T, ip |-> ip,
                                tree |-> find_address_in_tree(reader, data, ip),
                                result |-> NoResult]]
    /\ reader' = after_call(reader)
    /\ UNCHANGED <<data, overflow_checks, open, md, fm, call>>

\* the thread's lookup goes on from the walk's result to its own
LookupDecode(t) ==
    /\ th[t].pc = "walked"
    /\ th' = [th EXCEPT ![t].pc = "done",
                        ![t].result = lookup_decode(reader, data, th[t].T, th[t].tree.res)]
    /\ reader' = after_call(reader)
    /\ UNCHANGED <<data, overflow_checks, open, md, fm, call>>

\* reader.metadata()
MetadataCall ==
    /\ open.ok
    /\ md = NoResult
    /\ md' = metadata_call(data)
    /\ reader' = after_call(reader)
    /\ UNCHANGED <<data, overflow_checks, open, th, fm, call>>

Init == InitWith(Files)

Next ==
    \/ Open
    \/ \E T \in TopLevel, ip \in Addrs : LookupWalk(1, T, ip)
    \/ LookupDecode(1)
    \/ MetadataCall

Spec == Init /\ [][Next]_vars

\* NumThreads lookups in flight at once on one Reader, in every interleaving
ConcFiles ==
    { File(EncTree(24, ChainTree(FALSE)), DataSection, StdMeta(ChainNodeCount(FALSE), 24, 6)),
      File(EncTree(28, << <<1, Ptr(2, Rec0)>>, <<Ptr(2, Rec1), Ptr(2, Rec2)>> >>),
           DataSection, StdMeta(2, 28, 4)),
      File(EncTree(32, << <<0, Ptr(1, Rec0)>> >>), DataSection, StdMeta(1, 32, 6)),
      File(EncTree(24, << <<1 + 3, Ptr(1, Rec3)>> >>), DataSection, StdMeta(1, 24, 4)) }
ConcAddrs == { <<64, 0, 0, 0>>, Mapped(<<0, 0>>, <<192, 0, 0, 1>>) }

InitConc == InitWith(ConcFiles)

NextConc ==
    \/ Open
    \/ \E t \in Threads, T \in TopLevel, ip \in ConcAddrs : LookupWalk(t, T, ip)
    \/ \E t \in Threads : LookupDecode(t)
    \/ MetadataCall

SpecConc == InitConc /\ [][NextConc]_vars

\* find_metadata_start and from_bytes on short buffers: every slice of a
\* buffer of FindLen bytes that holds the marker from its third byte on and
\* the marker's first byte everywhere else
FindLen == 18
FindBase ==
    [i \in 1..FindLen |->
        IF i \in 3..(2 + Len(METADATA_START_MARKER)) THEN METADATA_START_MARKER[i - 2]
        ELSE METADATA_START_MARKER[1]]
FindBufs ==
    { Slice(FindBase, ab[1], ab[2]) :
        ab \in {x \in (0..FindLen) \X (0..FindLen) : x[1] <= x[2]} }

\* find_metadata_start(data)
FindMetadataStart ==
    /\ fm = NoResult
    /\ fm' = find_metadata_start(data)
    /\ UNCHANGED <<data, overflow_checks, open, reader, th, md, call>>

\* buffers that hold the marker two or three times, with up to MaxGap bytes
\* (the marker's first byte) before, between and after the copies
MaxGap == 2
Gap(n) == [i \in 1..n |-> METADATA_START_MARKER[1]]
MarkerBufs ==
    { Gap(a) \o METADATA_START_MARKER \o Gap(b) \o METADATA_START_MARKER \o Gap(c) :
        a \in 0..MaxGap, b \in 0..MaxGap, c \in 0..MaxGap }
    \cup { Gap(a) \o METADATA_START_MARKER \o METADATA_START_MARKER
             \o Gap(b) \o METADATA_START_MARKER \o Gap(c) :
             a \in 0..MaxGap, b \in 0..MaxGap, c \in 0..MaxGap }

InitFind == InitWith(FindBufs \cup MarkerBufs)

NextFind == FindMetadataStart \/ Open

SpecFind == InitFind /\ [][NextFind]_vars

\* records and metadata of every shape: a pair is a key with an encoded value,
\* `of` names the schema whose arm reads it ("" when no schema has the key),
\* `field` the field the arm assigns, `nested` the key inside the value that
\* the sub-record's schema does not have (<<>> when there is none)
Pair(key, value, of, field, nested) ==
    [key |-> key, value |-> value, of |-> of, field |-> field, nested |-> nested]

RecordPairs ==
    { Pair(K_is_anonymous, EncBool(TRUE), "AnonymousIp", "is_anonymous", <<>>),
      Pair(K_is_tor_exit_node, EncBool(FALSE), "AnonymousIp", "is_tor_exit_node", <<>>),
      Pair(K_continent, EncMap(1) \o EncStr(K_code) \o EncStr(<<69, 85>>),
           "Country", "continent", <<>>),
      Pair(K_traits, EncMap(1) \o EncStr(K_is_anycast) \o EncBool(TRUE),
           "Country", "traits", <<>>),
      Pair(K_country, EncMap(2) \o EncStr(K_iso_code) \o EncStr(<<85, 83>>)
                                \o EncStr(K_type) \o EncStr(<<120>>),
           "Country", "country", K_type),
      Pair(K_code, EncStr(<<120>>), "", "", <<>>) }

MetadataPairs ==
    { Pair(K_record_size, EncUint16(<<24>>), "Metadata", "record_size", <<>>),
      Pair(K_node_count, EncUint32(<<1>>), "Metadata", "node_count", <<>>),
      Pair(K_ip_version, EncUint16(<<4>>), "Metadata", "ip_version", <<>>),
      Pair(K_database_type, EncStr(<<84>>), "Metadata", "database_type", <<>>),
      Pair(K_code, EncUint16(<<1>>), "", "", <<>>) }

\* the sequences of at most MaxPairs pairs
MaxPairs == 2
PairSeqs(pairs) == UNION { [1..n -> pairs] : n \in 0..MaxPairs }

EncPairs(ps) ==
    EncMap(Len(ps)) \o Concat([i \in 1..Len(ps) |-> EncStr(ps[i].key) \o ps[i].value])

\* a one-node tree whose records both point at the start of the data section
EntryTree == << <<Ptr(1, 0), Ptr(1, 0)>> >>

\* a file whose only data-section entry is the map of ps
RecordFile(ps) == File(EncTree(24, EntryTree), EncPairs(ps), StdMeta(1, 24, 4))

\* a file whose metadata is the map of ps
MetadataFile(ps) == File(EncTree(24, EntryTree), Rec0Bytes, EncPairs(ps))

\* each sequence of pairs with its file
RecordFiles == {[pairs |-> ps, file |-> RecordFile(ps)] : ps \in PairSeqs(RecordPairs)}
MetadataFiles == {[pairs |-> ps, file |-> MetadataFile(ps)] : ps \in PairSeqs(MetadataPairs)}

\* control headers of size 5 whose tag is not MAP: STRING, UINT16, UINT32,
\* ARRAY and BOOL
NonMapHeaders ==
    { <<DATA_TYPE_STRING * 32 + 5>>, <<DATA_TYPE_UINT16 * 32 + 5>>,
      <<DATA_TYPE_UINT32 * 32 + 5>>, <<5, DATA_TYPE_SLICE - 7>>, <<5, DATA_TYPE_BOOL - 7>> }

\* files whose metadata is the five pairs of StdMeta after such a header
RetaggedFiles ==
    { File(EncTree(24, EntryTree), Rec0Bytes, h \o Tail(StdMeta(1, 24, 4))) :
        h \in NonMapHeaders }

DecodeFiles ==
    {f.file : f \in RecordFiles} \cup {f.file : f \in MetadataFiles} \cup RetaggedFiles

InitDecode == InitWith(DecodeFiles)

NextDecode ==
    \/ Open
    \/ \E T \in TopLevel : LookupWalk(1, T, <<0, 0, 0, 0>>)
    \/ LookupDecode(1)
    \/ MetadataCall

SpecDecode == InitDecode /\ [][NextDecode]_vars

\* pointers of 1, 2, 3 and 4 bytes to the offset p; low are the three low
\* bits of the control byte, which a 4-byte pointer does not use
Pointer1(p) == <<32 + (p \div 256), p % 256>>
Pointer2(p) ==
    <<32 + 8 + ((p - 2048) \div 65536), ((p - 2048) \div 256) % 256, (p - 2048) % 256>>
Pointer3(p) ==
    <<32 + 16 + ((p - 526336) \div 16777216), ((p - 526336) \div 65536) % 256,
      ((p - 526336) \div 256) % 256, (p - 526336) % 256>>
Pointer4(p, low) == <<32 + 24 + low, 0, 0, p \div 256, p % 256>>

\* lookups that must end: search trees whose records lead back to earlier
\* nodes, so that a walk uses every bit of the address, and data sections
\* whose pointers aim at the MAP that encloses them, at themselves, or at
\* each other
LoopTrees ==
    { << <<0, 0>> >>,
      << <<1, 1>>, <<0, Ptr(2, 0)>> >>,
      << <<Ptr(1, 0), 0>> >> }
LoopSections ==
    { EncMap(1) \o EncStr(K_country) \o Pointer1(0),
      EncMap(1) \o EncStr(K_country) \o Pointer1(1 + Len(EncStr(K_country))),
      EncMap(2) \o EncStr(K_is_anonymous) \o Pointer1(Len(Pointer1(0)) + 1 + Len(EncStr(K_is_anonymous)))
                \o Pointer1(1 + Len(EncStr(K_is_anonymous))) \o EncBool(TRUE),
      EncMap(2) \o EncStr(K_country) \o Pointer1(0) \o EncStr(K_traits) \o Pointer1(0) }
LoopFiles ==
    { File(EncTree(24, t), s, StdMeta(Len(t), 24, ipv)) :
        t \in LoopTrees, s \in LoopSections, ipv \in {4, 6} }
LoopAddrs ==
    { <<0, 0, 0, 0>>, <<0, 0, 0, 1>>, <<255, 255, 255, 255>>,
      Zeros(16), Zeros(15) \o <<1>>, Mapped(<<255, 255>>, <<128, 0, 0, 1>>) }

InitLoop == InitWith(LoopFiles)

NextLoop ==
    \/ Open
    \/ \E T \in TopLevel, ip \in LoopAddrs : LookupWalk(1, T, ip)
    \/ LookupDecode(1)
    \/ MetadataCall

\* a lookup that has started goes on until it returns: weak fairness of
\* LookupDecode(1), WF_vars(LookupDecode(1)), with the action's enabling
\* condition written out as its guard
LookupRuns ==
    \/ []<>(th[1].pc /= "walked")
    \/ []<><<LookupDecode(1)>>_vars

SpecLoop == InitLoop /\ [][NextLoop]_vars /\ LookupRuns

\* the decoder operations called on their own: buffers that hold a value
\* under test at offset 0, padding, and from PoolBase on a pool of encoded
\* values for pointers to aim at
PoolBase == 8
PoolItems ==
    << EncStr(<<85, 83>>),
       EncBool(TRUE),
       <<104, 64, 9, 33, 251, 84, 68, 45, 24>>,
       EncUint16(<<1, 44>>),
       <<2, 4>> \o EncStr(<<101, 110>>) \o EncStr(<<100, 101>>),
       EncMap(1) \o EncStr(K_iso_code) \o EncStr(<<85, 83>>),
       EncMap(1) \o EncStr(K_is_anonymous) \o EncBool(TRUE),
       EncMap(1) \o EncStr(K_traits) \o EncMap(1) \o EncStr(K_is_anycast) \o EncBool(TRUE),
       <<32, PoolBase>>,
       <<56, 0, 0, 0, PoolBase>>,
       <<61>> >>
Pool == Concat(PoolItems)

\* the offset of pool item i when the pool starts at base
PoolOff(base, i) == base + Len(ConcatRange(PoolItems, 1, i - 1))

\* head, zero padding up to base, then the pool
WithPool(head, base) == head \o Zeros(base - Len(head)) \o Pool

\* control headers at the boundaries of the size classes, with and without
\* an extended type byte, and extended type bytes that exceed a u8 once 7 is
\* added
SizeHeads ==
    { <<64 + 28>>, <<64 + 29, 0>>, <<64 + 29, 255>>, <<64 + 30, 0, 0>>,
      <<64 + 30, 255, 255>>, <<64 + 31, 0, 0, 0>>, <<64 + 31, 0, 0, 1>>,
      <<29, 4, 7>>, <<30, 1, 1, 2>>, <<3, 248>>, <<0, 249>>, <<30, 249, 0, 0>>, <<1, 250>> }

PointerHeads ==
    UNION { { Pointer1(PoolOff(PoolBase, i)),
              Pointer4(PoolOff(PoolBase, i), 0),
              Pointer4(PoolOff(PoolBase, i), 5),
              <<32 + 24 + 5, 0, 0, 0, 0, PoolOff(PoolBase, i)>> } : i \in DOMAIN PoolItems }
      \cup { Pointer1(Len(Pool) + 2 * PoolBase), Pointer2(2048 + 600), Pointer3(526336),
             Pointer4(PoolOff(PoolBase, 1), 7) }

\* every prefix of b
Prefixes(b) == { Slice(b, 0, n) : n \in 0..Len(b) }

ShortBufs ==
    UNION { Prefixes(b) :
              b \in { EncStr(<<85, 83>>), EncBool(TRUE), <<94, 0, 1, 65>>, <<0>>,
                      Pointer1(0), Pointer1(1), Pointer4(0, 0), <<32, 2, 61>>,
                      <<2, 4>> \o EncStr(<<101, 110>>),
                      EncMap(1) \o EncStr(K_code) \o EncStr(<<85>>) } }

\* the pool at offset 2048, for 2-byte pointers
LongBase == 2048
LongBufs ==
    { WithPool(Pointer2(PoolOff(LongBase, i)), LongBase) : i \in DOMAIN PoolItems }

\* unsigned integers of each type and payload length: UINT16 of 0, 2 and 3
\* bytes, UINT32 of 4, INT32 of 4, UINT64 of 8, UINT128 of 3, 9 and 16
UsizeValues ==
    { <<160>>, <<162, 1, 44>>, <<163, 1, 2, 3>>, <<196, 0, 1, 2, 3>>,
      <<4, 1, 0, 0, 1, 0>>, <<8, 2, 1, 2, 3, 4, 5, 6, 7, 8>>, <<3, 3, 1, 0, 0>>,
      <<9, 3, 1, 2, 3, 4, 5, 6, 7, 8, 9>>,
      <<16, 3>> \o Zeros(14) \o <<1, 44>> }

\* each of them on its own and behind a POINTER
UsizeBufs == UsizeValues \cup { Pointer1(2) \o v : v \in UsizeValues }

\* values with no POINTER in them, each on its own: the pool's values, the
\* records of the data section, and a map of two string pairs
DirectBufs ==
    { PoolItems[i] : i \in 1..8 }
      \cup { Rec0Bytes, Rec1Bytes, Rec2Bytes,
              EncMap(2) \o EncStr(K_code) \o EncStr(<<69, 85>>)
                        \o EncStr(K_type) \o EncStr(<<>>) }

ReadBufs ==
    { WithPool(h, PoolBase) : h \in SizeHeads \cup PointerHeads }
      \cup ShortBufs \cup LongBufs \cup UsizeBufs \cup DirectBufs

\* the offsets the operations are called at
MaxOffset == 9
Offsets == 0..MaxOffset

\* the size arguments read_pointer is called with; a 4-byte pointer is read
\* where its value is below 2^31
PointerArgs == {0, 5, 7, 8, 13, 16, 23, 24, 29, 31, 37, 284}

\* every record schema
Schemas ==
    TopLevel \cup {"models::Continent", "models::Country",
                   "models::RepresentedCountry", "models::Traits"}

Called(op, T, offset, size, result) ==
    /\ call = NoCall
    /\ call' = [op |-> op, T |-> T, offset |-> offset, size |-> size, result |-> result]
    /\ UNCHANGED <<data, overflow_checks, open, reader, th, md, fm>>

ReadControl(offset) == Called("read_control", "", offset, 0, read_control(data, offset))
ReadPointer(offset, size) ==
    /\ ((size \div 8) % 4 = 3 /\ offset < Len(data)) => At(data, offset) < 128
    /\ Called("read_pointer", "", offset, size, read_pointer(data, offset, size))
ReadStr(offset) == Called("read_str", "", offset, 0, read_str(data, offset))
ReadBool(offset) == Called("read_bool", "", offset, 0, read_bool(data, offset))
ReadF64(offset) == Called("read_f64", "", offset, 0, read_f64(data, offset))
ReadUsize(offset) == Called("read_usize", "", offset, 0, read_usize(data, offset))
ReadStrArray(offset) == Called("read_str_array", "", offset, 0, read_str_array(data, offset))
ReadMap(offset) == Called("read_map", "", offset, 0, read_map(data, offset))
Decode(T, offset) == Called("decode", T, offset, 0, decode(T, data, offset))

InitRead == InitWith(ReadBufs)

NextRead ==
    \/ \E offset \in Offsets : ReadControl(offset)
    \/ \E offset \in Offsets, size \in PointerArgs : ReadPointer(offset, size)
    \/ \E offset \in Offsets : ReadStr(offset)
    \/ \E offset \in Offsets : ReadBool(offset)
    \/ \E offset \in Offsets : ReadF64(offset)
    \/ \E offset \in Offsets : ReadUsize(offset)
    \/ \E offset \in Offsets : ReadStrArray(offset)
    \/ \E offset \in Offsets : ReadMap(offset)
    \/ \E offset \in Offsets, T \in Schemas : Decode(T, offset)

SpecRead == InitRead /\ [][NextRead]_vars

\* read_pointer on its own, and lookups of a record that holds a POINTER
PointerFiles ==
    { File(EncTree(rs, << <<1 + 3, Ptr(1, Rec3)>> >>), DataSection, StdMeta(1, rs, 4)) :
        rs \in RecordSizes }

PointerBufs == { WithPool(h, PoolBase) : h \in PointerHeads }

InitPointer == InitWith(PointerBufs \cup PointerFiles)

NextPointer ==
    \/ \E offset \in Offsets, size \in PointerArgs : ReadPointer(offset, size)
    \/ Open
    \/ \E ip \in V4Addrs : LookupWalk(1, "Country", ip)
    \/ LookupDecode(1)

SpecPointer == InitPointer /\ [][NextPointer]_vars

\* read_left and read_right on their own: nodes with known left and right
\* records, each after a node with the two records swapped
MaxRecord(rs) == IF rs = 32 THEN 2147483647 ELSE 2 ^ rs - 1

\* record values of every byte pattern; 32-bit records stay below 2^31
NodeValues(rs) ==
    {0, 1, 255, 256, 65535, 11259375, 16777215, MaxRecord(rs) - 1, MaxRecord(rs)}

NodePair(rs, l, r) ==
    [record_size |-> rs, left |-> l, right |-> r, at |-> rs \div 4,
     buf |-> EncNode(rs, r, l) \o EncNode(rs, l, r)]

Nodes(rs) == { NodePair(rs, l, r) : l \in NodeValues(rs), r \in NodeValues(rs) }

NodePairs == UNION { Nodes(rs) : rs \in RecordSizes }

\* the byte offsets the reads are called at
NodeOffsets == {0, 6, 7, 8}

\* a Reader of the given record size
ReaderOf(rs) == [NoReader EXCEPT !.record_size = rs, !.node_offset_multi = rs \div 4]

\* a 32-bit record is read where its value is below 2^31
ReadLeft(rs, nodes) ==
    /\ (rs = 32 /\ nodes < Len(data)) => At(data, nodes) < 128
    /\ Called("read_left", "", nodes, rs, read_left(ReaderOf(rs), data, nodes))
ReadRight(rs, nodes) ==
    /\ (rs = 32 /\ nodes + 4 < Len(data)) => At(data, nodes + 4) < 128
    /\ Called("read_right", "", nodes, rs, read_right(ReaderOf(rs), data, nodes))

InitNode == InitWith({ n.buf : n \in NodePairs })

NextNode ==
    \/ \E rs \in RecordSizes, nodes \in NodeOffsets : ReadLeft(rs, nodes)
    \/ \E rs \in RecordSizes, nodes \in NodeOffsets : ReadRight(rs, nodes)

SpecNode == InitNode /\ [][NextNode]_vars

\* City and Enterprise records with the key "subdivisions": the pair is
\* followed by a "postal" pair, and `tail` lies after the record, where the
\* POINTERs of the case point
EncArray(n) == <<n, DATA_TYPE_SLICE - 7>>
SubElem(iso) == EncMap(1) \o EncStr(K_iso_code) \o EncStr(iso)
PostalPair == EncStr(K_postal) \o EncMap(1) \o EncStr(K_code) \o EncStr(<<88>>)
SubHead == EncMap(2) \o EncStr(K_subdivisions)

\* the offset of the tail when the value is a 1-byte POINTER, and when it is
\* an array of one element that is a 1-byte POINTER
TailAt == Len(SubHead) + Len(Pointer1(0)) + Len(PostalPair)
ElemTailAt == Len(SubHead) + Len(EncArray(1)) + Len(Pointer1(0)) + Len(PostalPair)

SubRecord(value, tail) == SubHead \o value \o PostalPair \o tail

\* a case whose subdivisions are the elements with the iso codes elems
SubOk(value, tail, elems) ==
    [buf |-> SubRecord(value, tail), ok |-> TRUE, elems |-> elems, err |-> NoResult]

\* a case that ends with the error err
SubErr(value, tail, err) ==
    [buf |-> SubRecord(value, tail), ok |-> FALSE, elems |-> <<>>, err |-> err]

CA == <<67, 65>>
NY == <<78, 89>>

SubdivCases ==
    { SubOk(EncArray(0), <<>>, <<>>),
      SubOk(EncArray(1) \o SubElem(CA), <<>>, <<CA>>),
      SubOk(EncArray(2) \o SubElem(CA) \o SubElem(NY), <<>>, <<CA, NY>>),
      SubOk(EncArray(2) \o SubElem(NY) \o SubElem(CA), <<>>, <<NY, CA>>),
      SubOk(Pointer1(TailAt), EncArray(2) \o SubElem(CA) \o SubElem(NY), <<CA, NY>>),
      SubOk(Pointer1(TailAt), EncArray(0), <<>>),
      SubOk(EncArray(1) \o Pointer1(ElemTailAt), SubElem(NY), <<NY>>),
      SubErr(EncStr(CA), <<>>, Err("InvalidDataType", <<DATA_TYPE_STRING>>)),
      SubErr(EncMap(0), <<>>, Err("InvalidDataType", <<DATA_TYPE_MAP>>)),
      SubErr(EncBool(TRUE), <<>>, Err("InvalidDataType", <<DATA_TYPE_BOOL>>)),
      SubErr(EncUint16(<<1, 44>>), <<>>, Err("InvalidDataType", <<DATA_TYPE_UINT16>>)),
      SubErr(Pointer1(TailAt), EncStr(CA), Err("InvalidDataType", <<DATA_TYPE_STRING>>)),
      SubErr(Pointer1(TailAt), SubElem(CA), Err("InvalidDataType", <<DATA_TYPE_MAP>>)),
      SubErr(Pointer1(TailAt), Pointer1(TailAt + 2) \o EncArray(0),
             Err("InvalidDataType", <<DATA_TYPE_POINTER>>)),
      SubErr(EncArray(2) \o SubElem(CA) \o EncMap(1) \o EncStr(K_code) \o EncStr(NY), <<>>,
             Err("UnknownField", K_code)),
      SubErr(EncArray(2) \o EncStr(CA) \o SubElem(NY), <<>>,
             Err("InvalidDataType", <<DATA_TYPE_STRING>>)),
      SubErr(EncArray(1) \o EncMap(1) \o EncStr(K_iso_code) \o EncBool(TRUE), <<>>,
             Err("InvalidDataType", <<DATA_TYPE_BOOL>>)),
      SubErr(EncArray(2) \o SubElem(CA), <<>>,
             Err("InvalidDataType", <<DATA_TYPE_STRING>>)),
      SubErr(Pointer1(TailAt), EncArray(2) \o SubElem(CA), Err("panic", <<>>)) }

InitSubdiv == InitWith({ c.buf : c \in SubdivCases })

NextSubdiv ==
    \/ Decode("City", 0)
    \/ Decode("Enterprise", 0)
    \/ \E offset \in Offsets : ReadStr(offset)
    \/ \E offset \in Offsets : ReadControl(offset)

SpecSubdiv == InitSubdiv /\ [][NextSubdiv]_vars

---------------------------------------------------------------------------
(* The MMDB search tree as the format defines it, read without the Reader: *)
(* the reference the lookups are compared with.                            *)

RECURSIVE BigEndian(_)
BigEndian(b) == IF b = <<>> THEN 0 ELSE BigEndian(SubSeq(b, 1, Len(b) - 1)) * 256 + b[Len(b)]

\* the bytes of node `node` in a tree of rs-bit records
NodeBytes(buf, rs, node) == SubSeq(buf, node * (rs \div 4) + 1, (node + 1) * (rs \div 4))

\* the left (bit 0) or right (bit 1) record of a node, from its bytes b
RecordOf(b, rs, bit) ==
    CASE rs = 24 -> BigEndian(SubSeq(b, 1 + 3 * bit, 3 + 3 * bit))
      [] rs = 32 -> BigEndian(SubSeq(b, 1 + 4 * bit, 4 + 4 * bit))
      [] rs = 28 -> IF bit = 0
                    THEN (b[4] \div 16) * 16777216 + BigEndian(SubSeq(b, 1, 3))
                    ELSE (b[4] % 16) * 16777216 + BigEndian(SubSeq(b, 5, 7))

TrieRecord(buf, rs, node, bit) == RecordOf(NodeBytes(buf, rs, node), rs, bit)

\* bit i of an address, most significant bit of the first octet first
BitOf(addr, i) == (addr[(i \div 8) + 1] \div (2 ^ (7 - (i % 8)))) % 2

\* the bits a lookup of ip follows from the root: in an IPv6 tree the IPv4
\* address a.b.c.d lies at ::a.b.c.d, after 96 zero bits
PathBits(ip, ip_version) == IF Len(ip) = 4 /\ ip_version = 6 THEN Zeros(12) \o ip ELSE ip

\* the bit-by-bit walk along bits lo..hi-1 of addr from node: it follows the
\* record for each bit until it meets a record that is not a node
RECURSIVE NaiveWalk(_, _, _, _, _, _, _)
NaiveWalk(buf, nc, rs, addr, node, lo, hi) ==
    IF node >= nc \/ hi <= lo THEN node
    ELSE IF hi = lo + 1 THEN TrieRecord(buf, rs, node, BitOf(addr, lo))
    ELSE NaiveWalk(buf, nc, rs, addr,
                   NaiveWalk(buf, nc, rs, addr, node, lo, (lo + hi) \div 2),
                   (lo + hi) \div 2, hi)

\* the record the walk from the root ends at for ip
NaiveLeaf(buf, m, ip) ==
    NaiveWalk(buf, WordToInt(m.node_count), WordToInt(m.record_size),
              PathBits(ip, m.ip_version), 0, 0, Len(PathBits(ip, m.ip_version)) * 8)

\* the data section: from the end of the separator to the metadata marker
SectionStart(m) ==
    WordToInt(m.node_count) * (WordToInt(m.record_size) \div 4) + DATA_SECTION_SEPARATOR_SIZE
SectionEnd(buf) == find_metadata_start(buf).val - Len(METADATA_START_MARKER)
SectionOf(buf, m) == SubSeq(buf, SectionStart(m) + 1, SectionEnd(buf))

\* a record is a node, "no data", or points into a data section of `size` bytes
RecordValid(nc, size, v) ==
    v <= nc \/ (v >= nc + DATA_SECTION_SEPARATOR_SIZE
                  /\ v - nc - DATA_SECTION_SEPARATOR_SIZE < size)

\* every record of a tree of nc nodes is valid
TreeValid(buf, nc, rs, size) ==
    \A node \in 0..(nc - 1), bit \in {0, 1} :
        RecordValid(nc, size, TrieRecord(buf, rs, node, bit))

\* a well-formed database: metadata within its ranges, the three regions in
\* place, every record of the tree valid
WellFormed(buf, m) ==
    /\ WordFits(m.node_count) /\ WordToInt(m.node_count) < 65536
    /\ WordFits(m.record_size) /\ WordToInt(m.record_size) \in {24, 28, 32}
    /\ m.ip_version \in {4, 6}
    /\ SectionStart(m) <= SectionEnd(buf)
    /\ Slice(buf, SectionStart(m) - DATA_SECTION_SEPARATOR_SIZE, SectionStart(m))
         = Zeros(DATA_SECTION_SEPARATOR_SIZE)
    /\ TreeValid(buf, WordToInt(m.node_count), WordToInt(m.record_size),
                 SectionEnd(buf) - SectionStart(m))

\* the metadata of the opened file
MetadataOf(buf) == metadata_call(buf).val

\* the data-section position of the entry a data record v points to
PositionOf(m, v) == v - WordToInt(m.node_count) - DATA_SECTION_SEPARATOR_SIZE

\* the naive walk for ip ends at a record `leaf` that is not a node, and when
\* that record points to data the entry there is a T
NaiveEnds(buf, m, T, leaf) ==
    /\ leaf >= WordToInt(m.node_count)
    /\ leaf > WordToInt(m.node_count)
         => decode(T, SectionOf(buf, m), PositionOf(m, leaf)).ok

\* what a lookup has to return when the naive walk ends at leaf
NaiveResult(buf, m, T, leaf) ==
    IF leaf = WordToInt(m.node_count) THEN Err("AddressNotFound", <<>>)
    ELSE Ok(decode(T, SectionOf(buf, m), PositionOf(m, leaf)).val, PositionOf(m, leaf))

\* a finished lookup of an IPv4 address on a well-formed database of T records
NaiveCase(t) ==
    /\ th[t].pc = "done"
    /\ Len(th[t].ip) = 4
    /\ WellFormed(data, MetadataOf(data))
    /\ NaiveEnds(data, MetadataOf(data), th[t].T, NaiveLeaf(data, MetadataOf(data), th[t].ip))

---------------------------------------------------------------------------
(* The claims *)

\* C1: on a well-formed database, a lookup of an IPv4 address returns the
\* record decoded at the data-section position the naive bit-by-bit walk
\* reaches, decoded at that position and no other, or AddressNotFound when
\* the walk reaches "no data"
C1_LookupMatchesNaiveWalk ==
    \A t \in Threads :
        NaiveCase(t) =>
            th[t].result = NaiveResult(data, MetadataOf(data), th[t].T,
                                       NaiveLeaf(data, MetadataOf(data), th[t].ip))

\* an IPv4 lookup that entered an IPv6 tree at its IPv4 subtree, 96 levels
\* down, and returned a record
C1_Witness ==
    \E t \in Threads :
        /\ NaiveCase(t)
        /\ th[t].result.ok
        /\ reader.ip_v4_start_bit_depth = 96
        /\ reader.ip_v4_start /= 0

\* a walk that returned: thread t has run find_address_in_tree without a panic
Walked(t) == th[t].pc /= "idle" /\ th[t].tree.res.err /= "panic"

\* the node the walk of thread t stands at after its first k bits
NodeAfter(t, k) ==
    NaiveWalk(data, WordToInt(reader.node_count), reader.record_size, th[t].ip,
              IF Len(th[t].ip) = 16 THEN 0 ELSE reader.ip_v4_start, 0, k)

\* C2: the outcome of find_address_in_tree is decided by the node the walk
\* stops at: node_count gives the sentinel 0, and lookup then returns
\* AddressNotFound; a greater value is returned as the data pointer; a smaller
\* one, with all bit_count bits consumed, gives InvalidNode.  The walk stops
\* consuming bits as soon as node >= node_count: every node before the last
\* bit consumed is below node_count, and bits are left over only at such a node.
C2_OutcomeByStopNode ==
    \A t \in Threads :
        Walked(t) =>
            /\ WordIs(reader.node_count, th[t].tree.node) => th[t].tree.res = Ok(0, 0)
            /\ ~WordGtInt(reader.node_count, th[t].tree.node - 1)
                 => th[t].tree.res = Ok(th[t].tree.node, 0)
            /\ NodeBelowCount(reader, th[t].tree.node)
                 => /\ th[t].tree.res = Err("InvalidNode", <<>>)
                    /\ th[t].tree.bits = Len(th[t].ip) * 8
            /\ (th[t].pc = "done" /\ th[t].tree.res = Ok(0, 0))
                 => th[t].result = Err("AddressNotFound", <<>>)
            /\ th[t].tree.bits <= Len(th[t].ip) * 8
            /\ th[t].tree.node = NodeAfter(t, th[t].tree.bits)
            /\ th[t].tree.bits > 0
                 => NodeAfter(t, th[t].tree.bits - 1) < WordToInt(reader.node_count)
            /\ th[t].tree.bits < Len(th[t].ip) * 8
                 => th[t].tree.node >= WordToInt(reader.node_count)

\* a walk that stopped at a data pointer with bits of the address left over
C2_Witness ==
    \E t \in Threads :
        /\ Walked(t)
        /\ th[t].tree.res.ok /\ th[t].tree.res.val > 0
        /\ th[t].tree.bits > 1
        /\ th[t].tree.bits < Len(th[t].ip) * 8

\* a finished lookup of an IPv6 address on a well-formed database whose
\* metadata says ip_version 4
V6OnV4(t) ==
    /\ th[t].pc = "done"
    /\ Len(th[t].ip) = 16
    /\ MetadataOf(data).ip_version = 4
    /\ WellFormed(data, MetadataOf(data))

\* C3: on a database whose ip_version is 4, the lookup of any IPv6 address
\* returns AddressNotFound, whatever the tree contains
C3_V6OnV4NotFound ==
    \A t \in Threads : V6OnV4(t) => th[t].result = Err("AddressNotFound", <<>>)

\* an IPv6 lookup on an ip_version 4 database that returned a record: the one
\* the tree holds for the IPv4 network made of the address's leading bits
C3_Witness ==
    \E t \in Threads :
        /\ V6OnV4(t)
        /\ th[t].result.ok
        /\ th[t].tree.bits <= 32

\* a finished lookup of an IPv4 address on a database whose ip_version is 6
V4OnV6(t) ==
    /\ th[t].pc = "done"
    /\ Len(th[t].ip) = 4
    /\ MetadataOf(data).ip_version = 6

\* C4, as stated: on an ip_version 6 database, an IPv4 lookup that finds a
\* record returns what the walk from the root along ::ffff:0:0/96 and then
\* the 32 address bits returns
C4_SameAsMappedPrefix ==
    \A t \in Threads :
        (V4OnV6(t) /\ th[t].result.ok) =>
            th[t].result = lookup(reader, data, th[t].T, Mapped(<<255, 255>>, th[t].ip))

\* C4, amended: on an ip_version 6 database, an IPv4 lookup returns what the
\* walk from the root along 96 zero bits (::/96) and then the 32 address
\* bits returns; entering at ip_v4_start does not change the outcome
C4_SameAsZeroPrefix ==
    \A t \in Threads :
        V4OnV6(t) =>
            th[t].result = lookup(reader, data, th[t].T, Mapped(<<0, 0>>, th[t].ip))

\* an IPv4 lookup that found a record below the IPv4 subtree of a 96-level
\* IPv6 tree in which ::ffff:0:0/96 holds no data
C4_Witness ==
    \E t \in Threads :
        /\ V4OnV6(t)
        /\ th[t].result.ok
        /\ reader.ip_v4_start_bit_depth = 96
        /\ lookup(reader, data, th[t].T, Mapped(<<255, 255>>, th[t].ip))
             = Err("AddressNotFound", <<>>)

\* every finished lookup has the result of the same lookup run alone on the
\* Reader as from_bytes returned it, and the Reader still has those fields
AloneResults ==
    /\ open.ok => reader = open.val
    /\ \A t \in Threads :
          th[t].pc = "done" => th[t].result = lookup(open.val, data, th[t].T, th[t].ip)

\* C5: lookups run simultaneously on one Reader over an unmodified buffer
\* each return the result the same lookup returns when run alone, in every
\* interleaving, and after open no lookup or metadata call writes the buffer
\* or a field of the Reader
C5_SimultaneousLookups ==
    /\ []AloneResults
    /\ [][open.ok => (reader' = reader /\ data' = data)]_vars

\* two lookups in flight at once: one has walked the tree and not yet decoded,
\* the other has finished with a record, and metadata has been called
C5_Witness ==
    /\ th[1].pc = "walked"
    /\ th[2].pc = "done" /\ th[2].result.ok
    /\ th[1].ip /= th[2].ip
    /\ md.ok

\* the metadata decodes, m its outcome, with a record_size other than 24, 28
\* and 32
RecordSizeBad(m) == m.ok /\ ~(\E n \in {24, 28, 32} : WordIs(m.val.record_size, n))

\* what from_bytes does then, m the outcome of decoding the metadata
RecordSizeRejected(m) ==
    /\ open = Err("InvalidRecordSize", m.val.record_size)
    /\ reader = NoReader

\* from_bytes has been called on a buffer whose metadata decodes with such a
\* record_size
BadRecordSize == open /= NoResult /\ RecordSizeBad(metadata_call(data))

\* C6: from_bytes returns InvalidRecordSize(record_size) whenever the decoded
\* record_size is not 24, 28 or 32, the default 0 of an absent key included,
\* and constructs no Reader
C6_InvalidRecordSize == BadRecordSize => RecordSizeRejected(metadata_call(data))

\* from_bytes called on a file whose metadata has no record_size key
C6_Witness ==
    /\ BadRecordSize
    /\ MetadataOf(data).record_size = Zeros(8)
    /\ MetadataOf(data).node_count /= Zeros(8)
    /\ open = Err("InvalidRecordSize", Zeros(8))

\* node_count * (record_size / 4) + 16 <= metadata_start over the integers:
\* product and sum are the 64-bit product and sum with their carries
FitsBefore(product, sum, metadata_start) ==
    product.carry = 0 /\ sum.carry = 0 /\ ~WordGtInt(sum.bytes, metadata_start)

TreeFits(metadata, metadata_start) ==
    FitsBefore(WordMul(metadata.node_count, WordToInt(metadata.record_size) \div 4),
               WordAdd(WordMul(metadata.node_count,
                               WordToInt(metadata.record_size) \div 4).bytes,
                       DATA_SECTION_SEPARATOR_SIZE),
               metadata_start)

\* the metadata decodes, m its outcome, with a record_size of 24, 28 or 32
RecordSizeGood(m) == m.ok /\ \E n \in {24, 28, 32} : WordIs(m.val.record_size, n)

\* from_bytes has been called on a buffer whose metadata decodes with such a
\* record_size
GoodRecordSize == open /= NoResult /\ RecordSizeGood(metadata_call(data))

\* the two halves of the claim, fits being the inequality
FitsOrRejected(fits) ==
    /\ open.ok => fits
    /\ ~fits => open = Err("InvalidSearchTreeSize", <<>>)

\* C7: every Reader from_bytes returns satisfies
\* node_count * (record_size / 4) + 16 <= metadata_start, and from_bytes
\* returns InvalidSearchTreeSize when the inequality is violated
C7_TreeFitsBeforeMetadata ==
    GoodRecordSize =>
        FitsOrRejected(TreeFits(MetadataOf(data), find_metadata_start(data).val))

\* a Reader returned although node_count * (record_size / 4) exceeds 64 bits
C7_Witness ==
    /\ GoodRecordSize
    /\ open.ok
    /\ ~TreeFits(MetadataOf(data), find_metadata_start(data).val)
    /\ reader.search_tree_size = Zeros(8)

\* the marker AB CD EF 'MaxMind.com' occurs in the buffer
ContainsMarker(buf) ==
    \E i \in 0..(Len(buf) - Len(METADATA_START_MARKER)) :
        Slice(buf, i, i + Len(METADATA_START_MARKER)) = METADATA_START_MARKER

\* C8: for every buffer that does not contain the marker, of any length,
\* lengths below 14 included, find_metadata_start, and therefore from_bytes,
\* returns MetadataNotFound and fails in no other way
C8_MetadataNotFound ==
    ~ContainsMarker(data) =>
        /\ fm /= NoResult => fm = Err("MetadataNotFound", <<>>)
        /\ open /= NoResult => open = Err("MetadataNotFound", <<>>)

\* find_metadata_start and from_bytes called on a non-empty buffer shorter
\* than the marker: both panic
C8_Witness ==
    /\ Len(data) \in 1..(Len(METADATA_START_MARKER) - 1)
    /\ fm = Panic
    /\ open = Panic

\* schema T has the key of the pair: the keys of Country are keys of City and
\* of Enterprise too
Takes(pair, T) == pair.of = T \/ (pair.of = "Country" /\ T \in {"City", "Enterprise"})

\* the first pair of ps that schema T cannot take: its key is not a key of T,
\* or its value is a sub-record with a key its schema does not have; 0 if none
FirstUnknown(ps, T) ==
    IF \E j \in 1..Len(ps) : ~Takes(ps[j], T) \/ ps[j].nested /= <<>>
    THEN CHOOSE j \in 1..Len(ps) :
            /\ ~Takes(ps[j], T) \/ ps[j].nested /= <<>>
            /\ \A i \in 1..(j - 1) : Takes(ps[i], T) /\ ps[i].nested = <<>>
    ELSE 0

\* the key of that pair the schema does not have
UnknownKey(pair, T) == IF ~Takes(pair, T) THEN pair.key ELSE pair.nested

\* C9: when the MAP decoded into a record schema or into Metadata contains a
\* key that the schema does not have, decoding stops at the first such key
\* and returns UnknownField(key), whatever the other keys are: the lookup
\* returns no record, from_bytes no Reader
C9_UnknownField ==
    /\ \A f \in RecordFiles :
          data = f.file =>
              \A t \in Threads :
                  (th[t].pc = "done" /\ FirstUnknown(f.pairs, th[t].T) /= 0) =>
                      th[t].result =
                          Err("UnknownField",
                              UnknownKey(f.pairs[FirstUnknown(f.pairs, th[t].T)], th[t].T))
    /\ \A f \in MetadataFiles :
          (data = f.file /\ open /= NoResult
             /\ FirstUnknown(f.pairs, "Metadata") /= 0) =>
              /\ open = Err("UnknownField",
                            UnknownKey(f.pairs[FirstUnknown(f.pairs, "Metadata")], "Metadata"))
              /\ reader = NoReader

\* a lookup whose record has a valid first key and an unknown second key: it
\* returned UnknownField and no record
C9_Witness ==
    \E f \in RecordFiles :
        /\ data = f.file
        /\ th[1].pc = "done"
        /\ FirstUnknown(f.pairs, th[1].T) = 2
        /\ th[1].result.err = "UnknownField"

\* C10: after a successful decode of a record, a field is Some if and only if
\* its key is among the MAP's pairs: a field whose key is absent is None, and
\* no other key sets it
C10_FieldSetIffKeyPresent ==
    \A f \in RecordFiles :
        data = f.file =>
            \A t \in Threads :
                (th[t].pc = "done" /\ th[t].result.ok) =>
                    \A field \in DOMAIN th[t].result.val :
                        th[t].result.val[field] /= None
                            <=> \E j \in 1..Len(f.pairs) : f.pairs[j].field = field

\* a decoded record with one field set by its key and the others left unset
C10_Witness ==
    \E f \in RecordFiles :
        /\ data = f.file
        /\ Len(f.pairs) > 0
        /\ th[1].pc = "done" /\ th[1].result.ok
        /\ \E x, y \in DOMAIN th[1].result.val :
              th[1].result.val[x] /= None /\ th[1].result.val[y] = None

\* the control header c is a POINTER whose target holds a MAP header
HeaderIsMap(c) == c.ok /\ c.val[1] = DATA_TYPE_MAP
TargetIsMap(buf, p) == p.ok /\ p.val < Len(buf) /\ HeaderIsMap(read_control(buf, p.val))
PointerToMap(buf, c) ==
    /\ c.ok
    /\ c.val[1] = DATA_TYPE_POINTER
    /\ TargetIsMap(buf, read_pointer(buf, c.off, c.val[2]))

\* the offset the pointer after the header c aims at
TargetOf(buf, c) == read_pointer(buf, c.off, c.val[2]).val

\* r is the outcome d of decoding the MAP itself: the same record, or the
\* same failure
SameRecord(r, d) == IF d.ok THEN r.ok /\ r.val = d.val ELSE r = d

\* what the claim says of a decode call whose control header is c
DecodeAsClaimed(c) ==
    /\ PointerToMap(data, c) =>
          SameRecord(call.result, decode(call.T, data, TargetOf(data, c)))
    /\ (c.ok /\ c.val[1] \notin {DATA_TYPE_MAP, DATA_TYPE_POINTER}) =>
          call.result = Err("InvalidDataType", <<c.val[1]>>)

\* C11: for every record schema, the top-level records lookup returns
\* included, decode accepts a MAP and a POINTER that resolves in one hop to a
\* MAP and produces the same record in both cases; any other tag yields
\* InvalidDataType(tag)
C11_DecodeMapOrPointer ==
    call.op = "decode" => DecodeAsClaimed(read_control(data, call.offset))

\* AnonymousIp::decode called on a POINTER to a MAP that decodes as an
\* AnonymousIp: it returned InvalidDataType(1)
C11_Witness ==
    /\ call.op = "decode"
    /\ call.T = "AnonymousIp"
    /\ PointerToMap(data, read_control(data, call.offset))
    /\ decode("AnonymousIp", data, TargetOf(data, read_control(data, call.offset))).ok
    /\ call.result = Err("InvalidDataType", <<DATA_TYPE_POINTER>>)

\* the bytes from search_tree_size + 16 onward
DataSectionLen(r, buf) == Len(buf) - WordToInt(r.search_tree_size) - DATA_SECTION_SEPARATOR_SIZE

\* thread t's walk ended on a pointer past the separator whose offset
\* pointer - node_count - 16 is not below the length of the data section
OffsetPastSection(t) ==
    /\ th[t].pc = "done"
    /\ th[t].tree.res.ok
    /\ th[t].tree.res.val >= WordToInt(reader.node_count) + DATA_SECTION_SEPARATOR_SIZE
    /\ th[t].tree.res.val - WordToInt(reader.node_count) - DATA_SECTION_SEPARATOR_SIZE
          >= DataSectionLen(reader, data)

\* C12: whenever the tree walk yields a pointer whose offset
\* pointer - node_count - 16 is greater than or equal to the length of the
\* data section, the bytes from search_tree_size + 16 onward, lookup returns
\* CorruptSearchTree and does not decode
C12_CorruptSearchTree ==
    \A t \in Threads :
        OffsetPastSection(t) => th[t].result = Err("CorruptSearchTree", <<>>)

\* a lookup whose offset is the length of the data section or more, and
\* less than the length of the file: it went on to decode and panicked
C12_Witness ==
    /\ OffsetPastSection(1)
    /\ th[1].tree.res.val - WordToInt(reader.node_count) - DATA_SECTION_SEPARATOR_SIZE
          < Len(data)
    /\ th[1].result = Panic

\* the operations that start by reading a control header
HeaderOps ==
    {"read_control", "read_str", "read_bool", "read_f64", "read_usize",
     "read_str_array", "read_map", "decode"}

\* the control byte at offset has type code 0 and is followed by a type byte
\* that fits a u8 once 7 is added, or has another type code
TypeByteFits(buf, offset) ==
    At(buf, offset) \div 32 /= DATA_TYPE_EXTENDED \/ At(buf, offset + 1) + 7 < 256

\* the bytes of the header at offset before its size-extension bytes
TypeBytes(buf, offset) == IF At(buf, offset) \div 32 = DATA_TYPE_EXTENDED THEN 2 ELSE 1

\* the header at offset lacks its control byte, its extended type byte or
\* some of its size-extension bytes
HeaderPastEnd(buf, offset) ==
    \/ offset >= Len(buf)
    \/ At(buf, offset) \div 32 = DATA_TYPE_EXTENDED /\ offset + 1 >= Len(buf)
    \/ /\ TypeByteFits(buf, offset)
       /\ At(buf, offset) % 32 >= 29
       /\ offset + TypeBytes(buf, offset) + ((At(buf, offset) % 32) - 28) > Len(buf)

\* the header c is complete and the value after it is not: a string's
\* payload, a pointer's bytes, or the control byte at the pointer's target
ValuePastEnd(op, buf, c) ==
    /\ c.ok
    /\ \/ op = "read_str" /\ c.val[1] = DATA_TYPE_STRING /\ c.off + c.val[2] > Len(buf)
       \/ c.val[1] = DATA_TYPE_POINTER /\ ~read_pointer(buf, c.off, c.val[2]).ok
       \/ c.val[1] = DATA_TYPE_POINTER /\ TargetOf(buf, c) >= Len(buf)

\* the call made reads past the end of the buffer
ReadPastEnd ==
    \/ call.op \in HeaderOps /\ HeaderPastEnd(data, call.offset)
    \/ /\ call.op \in HeaderOps \ {"read_control", "decode"}
       /\ ValuePastEnd(call.op, data, read_control(data, call.offset))
    \/ /\ call.op = "read_pointer"
       /\ call.offset + ((call.size \div 8) % 4) + 1 > Len(data)

\* C13: every decoder read that would go past the end of the buffer ends
\* with the error value InvalidOffset: payload bytes, the control byte
\* itself, the extended-type byte, size-extension bytes and a control byte at
\* a pointer target beyond the buffer; no such read is performed out of
\* bounds
C13_InvalidOffset == ReadPastEnd => call.result = Err("InvalidOffset", <<>>)

\* read_str called at the very end of a non-empty buffer: it panicked
C13_Witness ==
    /\ call.op = "read_str"
    /\ data /= <<>>
    /\ call.offset = Len(data)
    /\ call.result = Panic

\* the walk of thread t made no more child reads than the address has bits
WalkBounded(t) == th[t].tree.bits <= Len(th[t].ip) * 8

ReadOps == HeaderOps \ {"read_control"}

\* the pointer size the control byte states in bits 4 and 3 of its size field
ControlPointerSize(control_byte) == ((control_byte \div 8) % 4) + 1

\* the call was made at a POINTER control byte and returned a value
ReadThroughPointer ==
    /\ call.op \in ReadOps
    /\ call.offset < Len(data)
    /\ At(data, call.offset) \div 32 = DATA_TYPE_POINTER
    /\ call.result.ok

\* C15: after a read operation (read_str, read_bool, read_f64, read_usize,
\* read_str_array, read_map, Decoder::decode) has read a value through a
\* POINTER, the caller's cursor is exactly 1 + pointer_size bytes after the
\* control byte, for every POINTER control byte, those of pointer_size 4 with
\* any low three bits included, whatever the pointee's size and position
C15_CursorAfterPointer ==
    ReadThroughPointer
        => call.result.off = call.offset + 1 + ControlPointerSize(At(data, call.offset))

\* read_str at the control byte 0x3D (pointer_size 4, low bits 5) returned
\* the pointee with the cursor 6 bytes on
C15_Witness ==
    /\ call.op = "read_str"
    /\ call.offset = 0
    /\ data /= <<>>
    /\ At(data, 0) = 32 + 24 + 5
    /\ call.result = Ok(<<85, 83>>, 6)

\* the header c is a POINTER whose bytes are in the buffer and whose target
\* holds a control byte of type POINTER
PointeeIsPointer(buf, c) ==
    /\ c.ok
    /\ c.val[1] = DATA_TYPE_POINTER
    /\ read_pointer(buf, c.off, c.val[2]).ok
    /\ TargetOf(buf, c) < Len(buf)
    /\ At(buf, TargetOf(buf, c)) \div 32 = DATA_TYPE_POINTER

\* the call was made at a POINTER whose pointee is a POINTER
PointerToPointer ==
    /\ call.op \in ReadOps
    /\ PointeeIsPointer(data, read_control(data, call.offset))

\* C16: pointers are followed for one hop only: every read operation called
\* at a POINTER whose pointee's control byte is itself a POINTER ends with
\* InvalidDataType(1), whatever follows the pointee's control byte and
\* whatever lies at the pointee's own target
C16_OneHopOnly == PointerToPointer => call.result = Err("InvalidDataType", <<1>>)

\* read_bool at a POINTER to the control byte 0x3D, the last byte of the
\* buffer: the call ended with InvalidOffset
C16_Witness ==
    /\ call.op = "read_bool"
    /\ PointerToPointer
    /\ TargetOf(data, read_control(data, call.offset)) = Len(data) - 1
    /\ call.result = Err("InvalidOffset", <<>>)

\* the number of bytes of a pointer read with the argument size
PointerSizeOf(size) == ((size \div 8) % 4) + 1

\* the constant added for each pointer size
PointerConstant(pointer_size) ==
    CASE pointer_size = 1 -> 0
      [] pointer_size = 2 -> 2048
      [] pointer_size = 3 -> 526336
      [] pointer_size = 4 -> 0

\* the low three bits of size as the most significant bits before the
\* pointer's bytes; none for a 4-byte pointer
PointerPrefix(size, pointer_size) ==
    IF pointer_size = 4 THEN 0 ELSE (size % 8) * 256 ^ pointer_size

\* the pointer the format defines for the argument size and the bytes b
PointerValue(size, b) ==
    PointerPrefix(size, Len(b)) + BigEndian(b) + PointerConstant(Len(b))

\* the slice lookup decodes in: the file from the data section on
DecodeSlice(r, buf) ==
    Slice(buf, WordToInt(r.search_tree_size) + DATA_SECTION_SEPARATOR_SIZE, Len(buf))

\* the offset the POINTER in the record at Rec3 holds: the country map of Rec2
CountryMapAt == Rec2 + 1 + Len(EncStr(K_country))

\* thread t looked up the Country at Rec3, whose registered_country is a
\* POINTER
PointerInRecord(t) ==
    /\ th[t].pc = "done"
    /\ th[t].tree.res.ok
    /\ data_offset(reader, th[t].tree.res.val) = Rec3

\* C17: read_pointer reads pointer_size = ((size >> 3) & 3) + 1 bytes and
\* returns their big-endian value, with the low 3 bits of size prepended as
\* most significant bits for pointer sizes 1, 2, 3 and no prefix for 4, plus
\* 0, 2048, 526336, 0 for pointer sizes 1, 2, 3, 4; the cursor ends after the
\* pointer's bytes.  The value is an offset into the data section: a record's
\* POINTER yields the value at that offset of the data section, not of the
\* file
C17_ReadPointer ==
    /\ (call.op = "read_pointer" /\ call.offset + PointerSizeOf(call.size) <= Len(data))
          => call.result
               = Ok(PointerValue(call.size,
                                 Slice(data, call.offset,
                                       call.offset + PointerSizeOf(call.size))),
                    call.offset + PointerSizeOf(call.size))
    /\ \A t \in Threads :
          PointerInRecord(t)
              => /\ th[t].result.ok
                 /\ th[t].result.val.registered_country
                      = Some(decode("models::Country", DecodeSlice(reader, data),
                                    CountryMapAt).val)
                 /\ decode("models::Country", DecodeSlice(reader, data), CountryMapAt).ok
                 /\ ~decode("models::Country", data, CountryMapAt).ok

\* a 3-byte pointer with prefix 7 read over three zero bytes at offset 1:
\* 7 * 2^24 + 0 + 526336, the cursor at 4
C17_Witness ==
    /\ call.op = "read_pointer"
    /\ call.size = 23
    /\ call.offset = 1
    /\ call.result = Ok(7 * 16777216 + 526336, 4)

\* the size field of the control byte at offset
SizeField(buf, offset) == At(buf, offset) % 32

\* the number of size-extension bytes of the header at offset
SizeBytes(buf, offset) ==
    IF SizeField(buf, offset) < 29 THEN 0 ELSE SizeField(buf, offset) - 28

\* the type of the header at offset: the type code, or the extended type
\* byte plus 7 where the type code is 0
HeaderType(buf, offset) ==
    IF At(buf, offset) \div 32 = DATA_TYPE_EXTENDED THEN At(buf, offset + 1) + 7
    ELSE At(buf, offset) \div 32

\* the size of the header at offset whose size-extension bytes are b
HeaderSize(buf, offset, b) ==
    CASE Len(b) = 0 -> SizeField(buf, offset)
      [] Len(b) = 1 -> BigEndian(b) + 29
      [] Len(b) = 2 -> BigEndian(b) + 285
      [] Len(b) = 3 -> BigEndian(b) + 65821

\* the header at offset as the format defines it, the cursor just past its
\* last byte
HeaderAt(buf, offset) ==
    Ok(<<HeaderType(buf, offset),
         HeaderSize(buf, offset,
                    Slice(buf, offset + TypeBytes(buf, offset),
                          offset + TypeBytes(buf, offset) + SizeBytes(buf, offset)))>>,
       offset + TypeBytes(buf, offset) + SizeBytes(buf, offset))

\* every byte of the header at offset is in the buffer
HeaderInBuffer(buf, offset) ==
    /\ offset < Len(buf)
    /\ offset + TypeBytes(buf, offset) <= Len(buf)
    /\ offset + TypeBytes(buf, offset) + SizeBytes(buf, offset) <= Len(buf)

\* C18: read_control returns size = control & 0x1F where that is below 29,
\* and otherwise the big-endian value of the next (control & 0x1F) - 28
\* bytes plus 29, 285 or 65821 for 1, 2 or 3 bytes; where the type code is 0
\* the type is the extended type byte plus 7 and that byte comes before the
\* size-extension bytes; the cursor ends just past the last header byte
C18_ReadControl ==
    (call.op = "read_control" /\ HeaderInBuffer(data, call.offset))
        => call.result = HeaderAt(data, call.offset)

\* read_control at the header 0x1E 0xF9 0x00 0x00, an extended type byte of
\* 249 with two size-extension bytes, in a build with overflow checks:
\* it panicked
C18_Witness ==
    /\ call.op = "read_control"
    /\ call.offset = 0
    /\ Len(data) >= 4
    /\ Slice(data, 0, 4) = <<30, 249, 0, 0>>
    /\ overflow_checks
    /\ call.result = Panic

\* the call read a record of a node whose bytes are all in the buffer
NodeRead ==
    /\ call.op \in {"read_left", "read_right"}
    /\ call.offset + call.size \div 4 <= Len(data)

\* the record the call asked for: left is 0, right is 1
CallBit == IF call.op = "read_right" THEN 1 ELSE 0

\* C19: read_left and read_right return the big-endian left and right record
\* of the node at the given byte offset: bytes 0..3 and 3..6 of a 6-byte node
\* for 24 bits, bytes 0..4 and 4..8 of an 8-byte node for 32 bits, and for 28
\* bits the high (left) or low (right) nibble of byte 3 as bits 27..24 before
\* bytes 0, 1, 2 (left) or 4, 5, 6 (right) of a 7-byte node; every pair of
\* values below 2^record_size written into a node is read back unchanged
C19_ReadLeftRight ==
    /\ NodeRead
          => call.result
               = Ok(RecordOf(Slice(data, call.offset, call.offset + call.size \div 4),
                             call.size, CallBit), 0)
    /\ \A n \in NodePairs :
          (NodeRead /\ data = n.buf /\ call.size = n.record_size /\ call.offset = n.at)
              => call.result = Ok(IF CallBit = 0 THEN n.left ELSE n.right, 0)

\* read_right of a 28-bit node written with left 0xABCDEF and right
\* 0x0FFFFFFF returned 0x0FFFFFFF
C19_Witness ==
    /\ call.op = "read_right"
    /\ call.size = 28
    /\ call.offset = 7
    /\ data = NodePair(28, 11259375, 268435455).buf
    /\ call.result = Ok(268435455, 0)

\* the positions of the buffer where the marker starts
MarkerStarts(buf) ==
    { i \in 0..(Len(buf) - Len(METADATA_START_MARKER)) :
        Slice(buf, i, i + Len(METADATA_START_MARKER)) = METADATA_START_MARKER }

\* the greatest of them
LastMarkerStart(buf) ==
    CHOOSE i \in MarkerStarts(buf) : \A j \in MarkerStarts(buf) : j <= i

\* find_metadata_start returned on a buffer that holds the marker at several
\* positions
SeveralMarkers ==
    /\ fm /= NoResult
    /\ Cardinality(MarkerStarts(data)) >= 2

\* C20: on a buffer that holds the 14-byte marker at several positions,
\* find_metadata_start returns the index just past the occurrence with the
\* greatest start position
C20_LastMarkerWins ==
    SeveralMarkers
        => fm = Ok(LastMarkerStart(data) + Len(METADATA_START_MARKER), 0)

\* the buffer is the marker twice and nothing else: find_metadata_start
\* returned 14, the index just past the first copy
C20_Witness ==
    /\ data = METADATA_START_MARKER \o METADATA_START_MARKER
    /\ fm = Ok(Len(METADATA_START_MARKER), 0)

\* find_metadata_start returned on a buffer that holds the marker
MarkerPresent ==
    /\ fm /= NoResult
    /\ MarkerStarts(data) /= {}

\* C21: find_metadata_start examines every start position from
\* buf.len() - 14 down to 0: whenever the buffer holds the marker the call
\* returns the index just past it, buf.len() for a marker in the last 14
\* bytes and 14 for a marker at index 0
C21_EveryPositionExamined ==
    MarkerPresent
        => fm = Ok(LastMarkerStart(data) + Len(METADATA_START_MARKER), 0)

\* the buffer ends with the marker, its only copy: find_metadata_start
\* returned MetadataNotFound
C21_Witness ==
    /\ Len(data) > Len(METADATA_START_MARKER)
    /\ MarkerStarts(data) = {Len(data) - Len(METADATA_START_MARKER)}
    /\ fm = Err("MetadataNotFound", <<>>)

\* the value reached from node 0 by following the left record at most 96
\* times, stopping at the first value that is not below node_count
LeftDescent(buf, m) ==
    NaiveWalk(buf, WordToInt(m.node_count), WordToInt(m.record_size), Zeros(12), 0, 0, 96)

\* the start node of IPv4 lookups the metadata m calls for
StartNodeFor(buf, m) == IF m.ip_version = 6 THEN LeftDescent(buf, m) ELSE 0

\* the database is open, with an ip_version of 4 or 6
OpenedV4OrV6(m) ==
    /\ open.ok
    /\ WordFits(m.node_count)
    /\ m.ip_version \in {4, 6}

\* the start node is the one the metadata m calls for
StartNodeAsOpened(m) == OpenedV4OrV6(m) => reader.ip_v4_start = StartNodeFor(data, m)

\* C22: after a successful open, ip_v4_start is 0 when ip_version is 4, and
\* when ip_version is 6 it is the value reached from node 0 by following the
\* left record at most 96 times, stopping at the first value >= node_count;
\* it is set in from_bytes and is the same in every later state, whatever
\* lookups and metadata calls were made
C22_IpV4Start == StartNodeAsOpened(MetadataOf(data))

\* an IPv6 database of 98 nodes whose IPv4 subtree starts at node 96, after
\* a lookup has finished
C22_Witness ==
    /\ open.ok
    /\ MetadataOf(data).ip_version = 6
    /\ reader.ip_v4_start = 96
    /\ th[1].pc = "done"

\* the types read_usize takes
UsizeTypes ==
    {DATA_TYPE_UINT16, DATA_TYPE_UINT32, DATA_TYPE_INT32, DATA_TYPE_UINT64, DATA_TYPE_UINT128}

\* the header of the value itself: the header c, or the one at c's target
\* where c is a POINTER
ValueHeader(buf, c) ==
    IF c.ok /\ c.val[1] = DATA_TYPE_POINTER /\ read_pointer(buf, c.off, c.val[2]).ok
    THEN read_control(buf, TargetOf(buf, c))
    ELSE c

\* v is the header of an unsigned integer whose payload is in the buffer
UsizeIn(buf, v) ==
    /\ v.ok
    /\ v.val[1] \in UsizeTypes
    /\ v.off + v.val[2] <= Len(buf)

\* the low 64 bits of the big-endian payload b, as a word
LowWord(b) == Slice(Zeros(8) \o b, Len(b), Len(b) + 8)

\* the result of read_usize for the value with header v
UsizeOf(buf, v, r) == r.ok /\ r.val = LowWord(Slice(buf, v.off, v.off + v.val[2]))

\* read_usize was called at v
UsizeRead(v) == call.op = "read_usize" /\ UsizeIn(data, v)

\* the call at v returned the value there
UsizeAsClaimed(v) == UsizeRead(v) => UsizeOf(data, v, call.result)

\* C23: read_usize accepts UINT16, UINT32, INT32, UINT64 and UINT128,
\* directly or through one pointer hop; a payload of zero bytes yields 0, one
\* of 1 to 8 bytes its big-endian value, and one longer than 8 bytes the
\* value truncated to its low 64 bits
C23_ReadUsize == UsizeAsClaimed(ValueHeader(data, read_control(data, call.offset)))

\* read_usize at a UINT128 with a payload of 16 bytes whose value is 300: it
\* returned 0
C23_Witness ==
    /\ call.op = "read_usize"
    /\ call.offset = 0
    /\ data = <<16, 3>> \o Zeros(14) \o <<1, 44>>
    /\ call.result = Ok(Zeros(8), 18)

\* the types whose value is a payload of `size` bytes after the header
PayloadTypes ==
    {DATA_TYPE_STRING, DATA_TYPE_FLOAT64, DATA_TYPE_UINT16, DATA_TYPE_UINT32,
     DATA_TYPE_INT32, DATA_TYPE_UINT64, DATA_TYPE_UINT128}

RECURSIVE ValueEnd(_, _)
RECURSIVE ValuesEnd(_, _, _)

\* the end of the value with header h: the header and its payload, for a
\* BOOL the header alone, for a MAP its 2 * size values and for an ARRAY its
\* size values, one after the other; -1 where the value is cut off by the
\* end of the buffer, is a POINTER or holds one, or has a type the decoder
\* does not read
ValueEndOf(buf, h) ==
    CASE h.val[1] \in PayloadTypes ->
            IF h.off + h.val[2] <= Len(buf) THEN h.off + h.val[2] ELSE -1
      [] h.val[1] = DATA_TYPE_BOOL -> h.off
      [] h.val[1] = DATA_TYPE_MAP -> ValuesEnd(buf, h.off, 2 * h.val[2])
      [] h.val[1] = DATA_TYPE_SLICE -> ValuesEnd(buf, h.off, h.val[2])
      [] OTHER -> -1

\* one past the last byte of the value encoded at offset
ValueEnd(buf, offset) ==
    IF offset < 0 \/ ~HeaderInBuffer(buf, offset) THEN -1
    ELSE ValueEndOf(buf, HeaderAt(buf, offset))

\* one past the last of n values encoded one after the other from offset
ValuesEnd(buf, offset, n) ==
    IF n = 0 \/ offset < 0 THEN offset
    ELSE ValuesEnd(buf, ValueEnd(buf, offset), n - 1)

\* a read operation returned a value that is encoded at call.offset with no
\* POINTER in it
DirectRead ==
    /\ call.op \in ReadOps
    /\ call.result.ok
    /\ ValueEnd(data, call.offset) >= 0

\* C24: every decoder operation that succeeds on a value encoded directly,
\* with no POINTER anywhere inside it, leaves the cursor exactly one past the
\* last byte of that value: the pairs of a MAP and the elements of an ARRAY
\* are read from consecutive byte ranges in file order, and decode_with_size
\* reads exactly size keys
C24_CursorPastValue == DirectRead => call.result.off = ValueEnd(data, call.offset)

\* Country::decode on a map whose "country" value is a map of two pairs,
\* the whole buffer: the cursor ended at the end of the buffer
C24_Witness ==
    /\ call.op = "decode"
    /\ call.T = "Country"
    /\ call.offset = 0
    /\ data = Rec2Bytes
    /\ call.result.ok
    /\ call.result.off = Len(data)

\* the element type of the subdivisions of T
SubdivisionOf(T) ==
    IF T = "Enterprise" THEN "models::EnterpriseSubdivision" ELSE "models::Subdivision"

\* the element with the iso code iso and no other field
SubdivisionWith(T, iso) == [Unset(SubdivisionOf(T)) EXCEPT !.iso_code = Some(iso)]

\* the elements with the iso codes elems, in their order
SubdivisionsWith(T, elems) == [i \in 1..Len(elems) |-> SubdivisionWith(T, elems[i])]

\* City or Enterprise was decoded from the start of the case c
SubdivDecoded(c) ==
    /\ data = c.buf
    /\ call.op = "decode"
    /\ call.T \in {"City", "Enterprise"}

\* the outcome the case c calls for
SubdivOutcome(c, r, T) ==
    IF c.ok
    THEN /\ r.ok
         /\ r.val.subdivisions = Some(SubdivisionsWith(T, c.elems))
         /\ r.val.postal /= None
    ELSE r = c.err

\* C25: where City or Enterprise decoding meets the key "subdivisions", an
\* ARRAY, or a POINTER that resolves in one hop to an ARRAY, gives the field
\* exactly its size decoded elements in file order, and decoding goes on
\* with the next pair; any other tag gives InvalidDataType(tag), and an
\* element that fails to decode fails the whole record with its error
C25_Subdivisions ==
    \A c \in SubdivCases : SubdivDecoded(c) => SubdivOutcome(c, call.result, call.T)

\* City decoded from a record whose subdivisions are a POINTER to an array
\* of two elements: the field holds CA and NY in this order
C25_Witness ==
    /\ call.op = "decode"
    /\ call.T = "City"
    /\ data = SubRecord(Pointer1(TailAt), EncArray(2) \o SubElem(CA) \o SubElem(NY))
    /\ call.result.ok
    /\ call.result.val.subdivisions
         = Some(<<SubdivisionWith("City", CA), SubdivisionWith("City", NY)>>)

\* the offset after the last marker of the buffer, where the metadata starts
MetadataStart(buf) == LastMarkerStart(buf) + Len(METADATA_START_MARKER)

\* the value after the last marker has a control header, and its tag is not MAP
MetadataNotMap(buf) ==
    /\ MarkerStarts(buf) /= {}
    /\ HeaderInBuffer(buf, MetadataStart(buf))
    /\ HeaderType(buf, MetadataStart(buf)) /= DATA_TYPE_MAP

\* the rejection of the tag of the value after the marker
MetadataTagRejected(buf) == Err("InvalidDataType", <<HeaderType(buf, MetadataStart(buf))>>)

\* C26: where the control header of the value after the marker has a tag
\* other than MAP, Metadata::from_bytes rejects it with InvalidDataType, in
\* Reader::from_bytes and in Reader::metadata, and does not use the size
\* field as a pair count
C26_MetadataMustBeMap ==
    MetadataNotMap(data) =>
        /\ open /= NoResult => open = MetadataTagRejected(data)
        /\ md /= NoResult => md = MetadataTagRejected(data)

\* a file whose metadata is five pairs after a STRING header of size 5: it
\* is opened, and metadata() returns the values of the pairs
C26_Witness ==
    /\ MetadataNotMap(data)
    /\ HeaderType(data, MetadataStart(data)) = DATA_TYPE_STRING
    /\ open.ok
    /\ md.ok
    /\ WordIs(md.val.record_size, 24)
    /\ md.val.ip_version = 4

\* a lookup on the opened Reader has run find_address_in_tree
WalkedOnOpened(t) == open.ok /\ th[t].pc /= "idle"

\* C27: on every Reader that from_bytes returned, record_size is 24, 28 or
\* 32, and no find_address_in_tree reads a byte at or past search_tree_size:
\* read_left and read_right index the slice &data[..search_tree_size], and a
\* read at or past its end panics
C27_ReadsInsideTree ==
    /\ open.ok => reader.record_size \in {24, 28, 32}
    /\ \A t \in Threads : WalkedOnOpened(t) => th[t].tree.res /= Panic

\* a Reader opened without overflow checks whose node_count * 8 wrapped to 0:
\* the walk of a lookup reads node 0 of the empty tree slice and panics
C27_Witness ==
    /\ ~overflow_checks
    /\ WalkedOnOpened(1)
    /\ reader.record_size = 32
    /\ WordGtInt(reader.node_count, 0)
    /\ reader.search_tree_size = Zeros(8)
    /\ th[1].tree.res = Panic

\* the IPv6 address ::a.b.c.d of the IPv4 address ip
ZeroPrefixed(ip) == Zeros(12) \o ip

\* thread t looked up an IPv4 address on an opened ip_version 6 database and
\* its walk has ended
V4WalkOnV6(t) ==
    /\ open.ok
    /\ th[t].pc \in {"walked", "done"}
    /\ Len(th[t].ip) = 4
    /\ MetadataOf(data).ip_version = 6

\* C28: on an ip_version 6 database the walk of an IPv4 address a.b.c.d ends
\* as the walk of ::a.b.c.d from the root does, and the lookup returns what
\* the lookup of ::a.b.c.d returns, also where the descent of from_bytes met a
\* leaf before 96 steps
C28_V4AsZeroPrefixed ==
    \A t \in Threads :
        V4WalkOnV6(t) =>
            /\ th[t].tree.res = find_address_in_tree(reader, data, ZeroPrefixed(th[t].ip)).res
            /\ th[t].pc = "done" =>
                  th[t].result = lookup(reader, data, th[t].T, ZeroPrefixed(th[t].ip))

\* an IPv4 lookup that returned a record on a database whose descent along
\* the 96 zero bits reached a data pointer early
C28_Witness ==
    /\ V4WalkOnV6(1)
    /\ th[1].pc = "done"
    /\ reader.ip_v4_start_bit_depth < 96
    /\ th[1].result.ok

\* find_address_in_tree of thread t returned Ok
WalkReturned(t) == Walked(t) /\ th[t].tree.res.ok

\* the record the bit-by-bit walk of the whole address of thread t stops at
StopRecord(t) == NodeAfter(t, Len(th[t].ip) * 8)

\* C29: find_address_in_tree returns 0 exactly when the walk stopped at a
\* value equal to node_count, and every other value it returns is the value
\* the walk stopped at, greater than node_count and not 0, whatever
\* node_count is, 0 included
C29_SentinelUnambiguous ==
    \A t \in Threads :
        WalkReturned(t) =>
            /\ th[t].tree.res.val = 0 <=> WordIs(reader.node_count, StopRecord(t))
            /\ th[t].tree.res.val /= 0 =>
                  /\ th[t].tree.res.val = StopRecord(t)
                  /\ th[t].tree.res.val > 0
                  /\ ~WordGtInt(reader.node_count, th[t].tree.res.val - 1)
                  /\ ~WordIs(reader.node_count, th[t].tree.res.val)

\* a walk on a database with node_count 0: it ends before its first bit at
\* node 0, which equals node_count, and returns the sentinel
C29_Witness ==
    /\ WalkReturned(1)
    /\ reader.node_count = Zeros(8)
    /\ th[1].tree.bits = 0
    /\ th[1].tree.res = Ok(0, 0)

\* the walk of thread t returned a value r with node_count < r < node_count + 16,
\* a pointer into the separator, and the lookup has finished
PointerInSeparator(t) ==
    /\ th[t].pc = "done"
    /\ th[t].tree.res.ok
    /\ th[t].tree.res.val > 0
    /\ WordFits(reader.node_count)
    /\ th[t].tree.res.val - WordToInt(reader.node_count) \in 1..(DATA_SECTION_SEPARATOR_SIZE - 1)

\* C30: for a record r with node_count < r < node_count + 16 the subtraction
\* r - node_count - 16 of lookup does not underflow: lookup returns an error
\* value, it does not panic and it decodes nothing
C30_NoNegativeOffset ==
    \A t \in Threads :
        PointerInSeparator(t) => (~th[t].result.ok /\ th[t].result /= Panic)

\* a lookup with overflow checks whose walk returned node_count + 3: the
\* subtraction of 16 from 3 panics
C30_Witness ==
    /\ overflow_checks
    /\ PointerInSeparator(1)
    /\ th[1].tree.res.val - WordToInt(reader.node_count) = 3
    /\ th[1].result = Panic

=============================================================================
